---- MODULE Spec2Model ----
(***************************************************************************)
(* Model of the eclipse-kanto/aws-connector message handlers:              *)
(*   - the shadow state handler (routing/message/handlers/state), which    *)
(*     mirrors the reported state of accepted AWS shadow notifications in  *)
(*     the package level map `shadows`;                                    *)
(*   - the passthrough device handler (routing/message/handlers/           *)
(*     passthrough), which turns Ditto twin commands into device shadow    *)
(*     messages;                                                           *)
(*   - the commands request filter and the message bus (routing/bus), the  *)
(*     filter settings (config) and the start of the connector (main).     *)
(*                                                                         *)
(* Go strings are sequences of one-character strings, so that len, slices, *)
(* strings.Split, strings.HasPrefix, strings.HasSuffix and                 *)
(* strings.Contains are computed as the code computes them.                *)
(* JSON values (interface{} after json.Unmarshal) are tagged records:      *)
(*   [t |-> "null"], [t |-> "num", n |-> 1], [t |-> "str", s |-> <<..>>],  *)
(*   [t |-> "obj", m |-> function from keys to values],                    *)
(*   [t |-> "arr", a |-> sequence of values].                              *)
(***************************************************************************)
EXTENDS Integers, Sequences, FiniteSets, TLC

VARIABLES
    deviceID,        \* settings.DeviceID, copied into both handlers by Init
    tenantID,        \* settings.TenantID
    payloadFilters,  \* deviceHandler.payloadFilters (compiled regular expressions)
    topicFilter,     \* deviceHandler.topicFilter (compiled regular expression or nil)
    shadows,         \* package variable `shadows` of the state handler
    call,            \* the handler invocation the router is running / has just run
    settings,        \* the CloudSettings of main: identities and message filters
    router,          \* the handlers added to the router, in the order of the AddHandler calls
    pc,              \* where main is
    created,         \* the message handlers main has created: device side and cloud side
    access,          \* the accesses to the map `shadows` that are in progress
    life             \* the goroutines of startRouter, the router and the channel `done`

vars == <<deviceID, tenantID, payloadFilters, topicFilter, shadows, call,
          settings, router, pc, created, access, life>>
mainVars == <<settings, router, pc, created, life>>

-----------------------------------------------------------------------------
(* Bounds of the model. *)

\* at most this many payload filters are configured
MaxFilters == 2
\* at most this many handlers are given to the message bus
MaxHandlers == 3
\* CompileFilters is called at most this many times on the same settings
MaxCalls == 2

-----------------------------------------------------------------------------
(* Strings. *)

s_slash == <<"/">>
s_colon == <<":">>
s_aws == <<"$", "a", "w", "s">>
s_things == <<"t", "h", "i", "n", "g", "s">>
s_shadow == <<"s", "h", "a", "d", "o", "w">>
s_name == <<"n", "a", "m", "e">>
s_accepted == <<"a", "c", "c", "e", "p", "t", "e", "d">>

HasPrefix(s, prefix) ==
    /\ Len(s) >= Len(prefix)
    /\ SubSeq(s, 1, Len(prefix)) = prefix

HasSuffix(s, suffix) ==
    /\ Len(s) >= Len(suffix)
    /\ SubSeq(s, Len(s) - Len(suffix) + 1, Len(s)) = suffix

Contains(s, substr) ==
    \E i \in 1..(Len(s) - Len(substr) + 1) : SubSeq(s, i, i + Len(substr) - 1) = substr

RECURSIVE SplitAcc(_, _, _)
SplitAcc(s, cur, acc) ==
    IF s = <<>> THEN Append(acc, cur)
    ELSE IF Head(s) = "/" THEN SplitAcc(Tail(s), <<>>, Append(acc, cur))
    ELSE SplitAcc(Tail(s), Append(cur, Head(s)), acc)

\* strings.Split(s, "/")
Split(s) == SplitAcc(s, <<>>, <<>>)

-----------------------------------------------------------------------------
(* JSON values. *)

JNull == [t |-> "null"]
JNum(n) == [t |-> "num", n |-> n]
JStr(s) == [t |-> "str", s |-> s]
JObj(m) == [t |-> "obj", m |-> m]
JArr(a) == [t |-> "arr", a |-> a]
EmptyMap == [k \in {} |-> JNull]
Obj1(k, v) == JObj([x \in {k} |-> v])
Obj2(k1, v1, k2, v2) == JObj([x \in {k1, k2} |-> IF x = k1 THEN v1 ELSE v2])
IsMap(v) == v.t = "obj"
HasKey(v, k) == IsMap(v) /\ k \in DOMAIN v.m

MapPut(m, k, v) == [x \in (DOMAIN m) \cup {k} |-> IF x = k THEN v ELSE m[x]]
MapDelete(m, k) == [x \in (DOMAIN m) \ {k} |-> m[x]]

\* message.Payload: bytes that json.Unmarshal either rejects or decodes to a value
TextPayload == [kind |-> "text"]
JsonPayload(v) == [kind |-> "json", v |-> v]
EmptyPayload == [kind |-> "empty"]
Unmarshal(payload) ==
    IF payload.kind = "json" THEN [ok |-> TRUE, v |-> payload.v]
    ELSE [ok |-> FALSE, v |-> JNull]

\* a returned []*message.Message: the nil slice or a slice of messages
NilMessages == [isNil |-> TRUE, list |-> <<>>]
Messages(list) == [isNil |-> FALSE, list |-> list]
NoErr == "nil"

-----------------------------------------------------------------------------
(* Shadow state handler. *)

valueStateTag == <<"s", "t", "a", "t", "e">>
valueReportedTag == <<"r", "e", "p", "o", "r", "t", "e", "d">>

topicBaseTemplate(id) == s_aws \o s_slash \o s_things \o s_slash \o id \o s_slash \o s_shadow
updateSuffix == <<"/", "u", "p", "d", "a", "t", "e", "/">> \o s_accepted
deleteSuffix == <<"/", "d", "e", "l", "e", "t", "e", "/">> \o s_accepted
\* "/name/+" with the wildcard level replaced by the shadow name AWS publishes on
namedShadowAdditionTopicTemplate(shadowName) == s_slash \o s_name \o s_slash \o shadowName

find(name, values) ==
    IF ~IsMap(values) THEN [value |-> JNull, found |-> FALSE]
    ELSE IF name \notin DOMAIN values.m \/ values.m[name] = JNull
         THEN [value |-> JNull, found |-> FALSE]
         ELSE [value |-> values.m[name], found |-> TRUE]

getReportedState(payload) ==
    LET state == find(valueStateTag, payload)
    IN  IF ~state.found THEN [value |-> JNull, found |-> FALSE]
        ELSE find(valueReportedTag, state.value)

shadowIDIndex == 5

\* getShadowID taking the segment before the shadow name
getShadowID_previousSegment(id, topic) ==
    IF ~Contains(topic, s_slash \o s_name \o s_slash) THEN id
    ELSE Split(topic)[shadowIDIndex]

\* the topics of the subscription always have more than shadowIDIndex segments
getShadowID(id, topic) ==
    IF ~Contains(topic, s_slash \o s_name \o s_slash) THEN id
    ELSE Split(topic)[shadowIDIndex + 1]

GetCurrentShadowState(shadowID) ==
    IF shadowID \in DOMAIN shadows THEN shadows[shadowID] ELSE JNull

\* HandleMessage decoding the payload before it looks at the topic suffix
shadowStateHandler_HandleMessage_decodeFirst(id, sh, message) ==
    IF ~message.hasTopic
    THEN [shadows |-> sh, messages |-> NilMessages, err |-> "No topic in context"]
    ELSE LET shadowID == getShadowID(id, message.topic)
             payload == Unmarshal(message.payload)
             reported == getReportedState(payload.v)
         IN  IF ~payload.ok
             THEN [shadows |-> sh, messages |-> NilMessages, err |-> "Invalid json payload"]
             ELSE IF HasSuffix(message.topic, deleteSuffix)
             THEN [shadows |-> MapDelete(sh, shadowID), messages |-> NilMessages, err |-> NoErr]
             ELSE IF ~reported.found
             THEN [shadows |-> sh, messages |-> NilMessages, err |-> "Invalid Payload structure"]
             ELSE [shadows |-> MapPut(sh, shadowID, reported.value),
                   messages |-> NilMessages, err |-> NoErr]

\* HandleMessage forgetting the shadow when the update has no reported state
shadowStateHandler_HandleMessage_dropOnError(id, sh, message) ==
    IF ~message.hasTopic
    THEN [shadows |-> sh, messages |-> NilMessages, err |-> "No topic in context"]
    ELSE LET shadowID == getShadowID(id, message.topic)
             payload == Unmarshal(message.payload)
             reported == getReportedState(payload.v)
         IN  IF HasSuffix(message.topic, deleteSuffix)
             THEN [shadows |-> MapDelete(sh, shadowID), messages |-> NilMessages, err |-> NoErr]
             ELSE IF ~payload.ok
             THEN [shadows |-> sh, messages |-> NilMessages, err |-> "Invalid json payload"]
             ELSE IF ~reported.found
             THEN [shadows |-> MapDelete(sh, shadowID), messages |-> NilMessages,
                   err |-> "Invalid Payload structure"]
             ELSE [shadows |-> MapPut(sh, shadowID, reported.value),
                   messages |-> NilMessages, err |-> NoErr]

\* HandleMessage keeping the state a shadow already has when an update is accepted
shadowStateHandler_HandleMessage_keepFirst(id, sh, message) ==
    IF ~message.hasTopic
    THEN [shadows |-> sh, messages |-> NilMessages, err |-> "No topic in context"]
    ELSE LET shadowID == getShadowID(id, message.topic)
         IN  IF HasSuffix(message.topic, deleteSuffix)
             THEN [shadows |-> MapDelete(sh, shadowID), messages |-> NilMessages, err |-> NoErr]
             ELSE LET payload == Unmarshal(message.payload)
                  IN  IF ~payload.ok
                      THEN [shadows |-> sh, messages |-> NilMessages, err |-> "Invalid json payload"]
                      ELSE LET reported == getReportedState(payload.v)
                           IN  IF ~reported.found
                               THEN [shadows |-> sh, messages |-> NilMessages,
                                     err |-> "Invalid Payload structure"]
                               ELSE [shadows |-> IF shadowID \in DOMAIN sh THEN sh
                                                 ELSE MapPut(sh, shadowID, reported.value),
                                     messages |-> NilMessages, err |-> NoErr]

\* shadowStateHandler.HandleMessage: the map after the call, the returned messages and error
shadowStateHandler_HandleMessage(id, sh, message) ==
    IF ~message.hasTopic
    THEN [shadows |-> sh, messages |-> NilMessages, err |-> "No topic in context"]
    ELSE LET shadowID == getShadowID(id, message.topic)
         IN  IF HasSuffix(message.topic, deleteSuffix)
             THEN [shadows |-> MapDelete(sh, shadowID), messages |-> NilMessages, err |-> NoErr]
             ELSE LET payload == Unmarshal(message.payload)
                  IN  IF ~payload.ok
                      THEN [shadows |-> sh, messages |-> NilMessages, err |-> "Invalid json payload"]
                      ELSE LET reported == getReportedState(payload.v)
                           IN  IF ~reported.found
                               THEN [shadows |-> sh, messages |-> NilMessages,
                                     err |-> "Invalid Payload structure"]
                               ELSE [shadows |-> MapPut(sh, shadowID, reported.value),
                                     messages |-> NilMessages, err |-> NoErr]

-----------------------------------------------------------------------------
(* Passthrough device handler. *)

valueAttributesTag == <<"a", "t", "t", "r", "i", "b", "u", "t", "e", "s">>
valueFeaturesTag == <<"f", "e", "a", "t", "u", "r", "e", "s">>
valuePropertiesTag == <<"p", "r", "o", "p", "e", "r", "t", "i", "e", "s">>
valueDefinitionTag == <<"d", "e", "f", "i", "n", "i", "t", "i", "o", "n">>

topicUpdate == <<"u", "p", "d", "a", "t", "e">>
topicDelete == <<"d", "e", "l", "e", "t", "e">>

\* "$aws/things/%s/shadow/%s"
topicRootShadow(id, target) ==
    s_aws \o s_slash \o s_things \o s_slash \o id \o s_slash \o s_shadow \o s_slash \o target
\* "$aws/things/%s/shadow/name/%s/%s"
topicNamedShadow(id, name, target) ==
    s_aws \o s_slash \o s_things \o s_slash \o id \o s_slash \o s_shadow \o s_slash
        \o s_name \o s_slash \o name \o s_slash \o target
\* "$aws/things/%s/shadow/name/%s:%s/%s"
topicComplexNamedShadow(id, name, feature, target) ==
    s_aws \o s_slash \o s_things \o s_slash \o id \o s_slash \o s_shadow \o s_slash
        \o s_name \o s_slash \o name \o s_colon \o feature \o s_slash \o target

\* values of the protocol package the handler compares with
GroupThings == s_things
ChannelTwin == <<"t", "w", "i", "n">>
CriterionCommands == <<"c", "o", "m", "m", "a", "n", "d", "s">>
ActionCreate == <<"c", "r", "e", "a", "t", "e">>
ActionModify == <<"m", "o", "d", "i", "f", "y">>
ActionMerge == <<"m", "e", "r", "g", "e">>
ActionDelete == topicDelete

\* protocol.Topic.String()
TopicString(topic) ==
    topic.Namespace \o s_slash \o topic.EntityName \o s_slash \o topic.Group \o s_slash
        \o topic.Channel \o s_slash \o topic.Criterion \o s_slash \o topic.Action

\* fmt.Sprintf("%s:%s", topic.Namespace, topic.EntityName)
ThingID(topic) == topic.Namespace \o s_colon \o topic.EntityName

\* regexp.Regexp.MatchString for the expressions  .*  ,  .*<s>$  ,  ^<s>.*  and  <s>
\* (s without metacharacters)
MatchString(filter, str) ==
    CASE filter.kind = "all" -> TRUE
      [] filter.kind = "suffix" -> HasSuffix(str, filter.s)
      [] filter.kind = "prefix" -> HasPrefix(str, filter.s)
      [] filter.kind = "text" -> Contains(str, filter.s)

NilRegexp == [kind |-> "nil", s |-> <<>>]

\* isEntireShadow taking every value for the entire shadow
isEntireShadow_always(value) == TRUE

\* isEntireShadow that only knows the empty map
isEntireShadow_emptyMapOnly(value) ==
    IF IsMap(value) THEN DOMAIN value.m = {} ELSE FALSE

isEntireShadow(value) ==
    IF IsMap(value) THEN DOMAIN value.m = {} ELSE TRUE

\* toShadowTopic slicing the thing ID at len(deviceID), which keeps the colon
toShadowTopic_keepColon(id, topic, featureName, value) ==
    LET update == ~(topic.Action = ActionDelete /\ isEntireShadow(value))
        target == IF update THEN topicUpdate ELSE topicDelete
        topicID == ThingID(topic)
        child == SubSeq(topicID, Len(id) + 1, Len(topicID))
    IN  IF Len(id) = Len(topicID)
        THEN IF featureName = <<>>
             THEN [res |-> topicRootShadow(id, target), update |-> update, panic |-> FALSE]
             ELSE [res |-> topicNamedShadow(id, featureName, target), update |-> update,
                   panic |-> FALSE]
        ELSE IF Len(id) > Len(topicID)
             THEN [res |-> <<>>, update |-> update, panic |-> TRUE]
             ELSE IF featureName = <<>>
                  THEN [res |-> topicNamedShadow(id, child, target), update |-> update,
                        panic |-> FALSE]
                  ELSE [res |-> topicComplexNamedShadow(id, child, featureName, target),
                        update |-> update, panic |-> FALSE]

\* a slice expression s[from:] that is out of range panics
toShadowTopic(id, topic, featureName, value) ==
    LET update == ~(topic.Action = ActionDelete /\ isEntireShadow(value))
        target == IF update THEN topicUpdate ELSE topicDelete
        topicID == ThingID(topic)
        child == SubSeq(topicID, Len(id) + 2, Len(topicID))
        inRange == Len(id) + 1 <= Len(topicID)
    IN  IF Len(id) = Len(topicID)
        THEN IF featureName = <<>>
             THEN [res |-> topicRootShadow(id, target), update |-> update, panic |-> FALSE]
             ELSE [res |-> topicNamedShadow(id, featureName, target), update |-> update,
                   panic |-> FALSE]
        ELSE IF ~inRange
             THEN [res |-> <<>>, update |-> update, panic |-> TRUE]
             ELSE IF featureName = <<>>
                  THEN [res |-> topicNamedShadow(id, child, target), update |-> update,
                        panic |-> FALSE]
                  ELSE [res |-> topicComplexNamedShadow(id, child, featureName, target),
                        update |-> update, panic |-> FALSE]

\* isDittoRequest accepting every identity the device ID is a prefix of
isDittoRequest_anyPrefix(id, env) ==
    LET tid == ThingID(env.Topic)
    IN  /\ env.Status = 0
        /\ env.Topic.Group = GroupThings
        /\ HasPrefix(tid, id)

isDittoRequest(id, env) ==
    LET tid == ThingID(env.Topic)
    IN  /\ env.Status = 0
        /\ env.Topic.Group = GroupThings
        /\ (tid = id \/ HasPrefix(tid, id \o s_colon))

isShadowMessage(id, env) ==
    /\ isDittoRequest(id, env)
    /\ env.Topic.Channel = ChannelTwin
    /\ env.Topic.Criterion = CriterionCommands
    /\ env.Topic.Action \in {ActionCreate, ActionModify, ActionMerge, ActionDelete}

\* search: whether the callback is called, and the map (or nil) it is called with
search(key, value) ==
    IF HasKey(value, key)
    THEN [called |-> TRUE, arg |-> IF IsMap(value.m[key]) THEN value.m[key] ELSE JNull]
    ELSE [called |-> FALSE, arg |-> JNull]

RECURSIVE integrateFrom(_, _, _)
integrateFrom(path, i, value) ==
    IF i < 1 THEN value
    ELSE IF Len(path[i]) > 0
         THEN integrateFrom(path, i - 1, Obj1(path[i], value))
         ELSE integrateFrom(path, i - 1, value)

integrate(path, value) == integrateFrom(path, Len(path), value)

\* toShadowMessage adding only the "reported" prefix
toShadowMessage_reportedOnly(id, env, featureName, value) ==
    LET t == toShadowTopic(id, env.Topic, featureName, value)
        payload == IF t.update
                   THEN JsonPayload(integrate(<<valueReportedTag>>, value))
                   ELSE EmptyPayload
    IN  [topic |-> t.res, payload |-> payload, panic |-> t.panic]

toShadowMessage(id, env, featureName, value) ==
    LET t == toShadowTopic(id, env.Topic, featureName, value)
        payload == IF t.update
                   THEN JsonPayload(integrate(<<valueStateTag, valueReportedTag>>, value))
                   ELSE EmptyPayload
    IN  [topic |-> t.res, payload |-> payload, panic |-> t.panic]

\* res is the properties map of the feature itself when the feature has one (a map is a
\* reference), so the definition is written into that map; obj is the feature after the call
getFeatureProperties(obj) ==
    LET properties == IF HasKey(obj, valuePropertiesTag) /\ IsMap(obj.m[valuePropertiesTag])
                      THEN obj.m[valuePropertiesTag].m
                      ELSE EmptyMap
        res == IF HasKey(obj, valueDefinitionTag)
               THEN MapPut(properties, valueDefinitionTag, obj.m[valueDefinitionTag])
               ELSE properties
        aliased == HasKey(obj, valuePropertiesTag) /\ IsMap(obj.m[valuePropertiesTag])
    IN  [value |-> JObj(res), ok |-> DOMAIN res # {},
         obj |-> IF aliased
                 THEN JObj(MapPut(obj.m, valuePropertiesTag, JObj(res)))
                 ELSE obj]

Digits == <<"0", "1", "2", "3", "4", "5", "6", "7", "8", "9">>
RECURSIVE Itoa(_)
\* fmt.Sprintf("%d", n) for n >= 0
Itoa(n) == IF n < 10 THEN <<Digits[n + 1]>> ELSE Itoa(n \div 10) \o <<Digits[(n % 10) + 1]>>

RECURSIVE KeptElements(_, _)
KeptElements(res, i) ==
    IF i > Len(res) THEN <<>>
    ELSE (IF res[i].rem THEN <<>> ELSE <<res[i].val>>) \o KeptElements(res, i + 1)

RECURSIVE filterPayloadRec_keepEmpty(_, _, _)
\* _filterPayload leaving a map in place when all its members are removed
filterPayloadRec_keepEmpty(filters, path, data) ==
    IF data.t = "obj"
    THEN LET res == [name \in DOMAIN data.m |->
                        filterPayloadRec_keepEmpty(filters, path \o s_slash \o name, data.m[name])]
             keep == {name \in DOMAIN data.m : ~res[name].rem}
         IN  [rem |-> FALSE, val |-> JObj([name \in keep |-> res[name].val])]
    ELSE IF data.t = "arr"
    THEN LET res == [i \in 1..Len(data.a) |->
                        filterPayloadRec_keepEmpty(filters, path \o s_slash \o Itoa(i - 1),
                                                   data.a[i])]
             aData == KeptElements(res, 1)
         IN  [rem |-> Len(aData) = 0, val |-> JArr(aData)]
    ELSE [rem |-> \E i \in 1..Len(filters) : MatchString(filters[i], path), val |-> data]

RECURSIVE filterPayloadRec_indexFromOne(_, _, _)
\* _filterPayload numbering the elements of an array from one
filterPayloadRec_indexFromOne(filters, path, data) ==
    IF data.t = "obj"
    THEN LET res == [name \in DOMAIN data.m |->
                        filterPayloadRec_indexFromOne(filters, path \o s_slash \o name,
                                                      data.m[name])]
             keep == {name \in DOMAIN data.m : ~res[name].rem}
         IN  [rem |-> keep = {}, val |-> JObj([name \in keep |-> res[name].val])]
    ELSE IF data.t = "arr"
    THEN LET res == [i \in 1..Len(data.a) |->
                        filterPayloadRec_indexFromOne(filters, path \o s_slash \o Itoa(i),
                                                      data.a[i])]
             aData == KeptElements(res, 1)
         IN  [rem |-> Len(aData) = 0, val |-> JArr(aData)]
    ELSE [rem |-> \E i \in 1..Len(filters) : MatchString(filters[i], path), val |-> data]

RECURSIVE filterPayloadRec(_, _, _)
\* deviceHandler._filterPayload
filterPayloadRec(filters, path, data) ==
    IF data.t = "obj"
    THEN LET res == [name \in DOMAIN data.m |->
                        filterPayloadRec(filters, path \o s_slash \o name, data.m[name])]
             keep == {name \in DOMAIN data.m : ~res[name].rem}
         IN  [rem |-> keep = {}, val |-> JObj([name \in keep |-> res[name].val])]
    ELSE IF data.t = "arr"
    THEN LET res == [i \in 1..Len(data.a) |->
                        filterPayloadRec(filters, path \o s_slash \o Itoa(i - 1), data.a[i])]
             aData == KeptElements(res, 1)
         IN  [rem |-> Len(aData) = 0, val |-> JArr(aData)]
    ELSE [rem |-> \E i \in 1..Len(filters) : MatchString(filters[i], path), val |-> data]

\* the result nil is the JSON null: both are the nil interface{}
filterPayload(filters, data) ==
    IF Len(filters) > 0
    THEN LET r == filterPayloadRec(filters, <<>>, data)
         IN  IF ~r.rem THEN r.val ELSE JNull
    ELSE data

RECURSIVE featureMessages_skipNull(_, _, _, _, _)
\* the loop over the features map building nothing for a feature that is nil
featureMessages_skipNull(id, env, features, order, i) ==
    IF i > Len(order) THEN <<>>
    ELSE LET featureName == order[i]
             feature == features[featureName]
             properties == getFeatureProperties(feature)
             this == IF feature # JNull /\ properties.ok
                     THEN <<toShadowMessage(id, env, featureName, properties.value)>>
                     ELSE <<>>
         IN  this \o featureMessages_skipNull(id, env, features, order, i + 1)

RECURSIVE featureMessages(_, _, _, _, _)
\* the loop over the features map; order is the order the range statement visits the keys in
featureMessages(id, env, features, order, i) ==
    IF i > Len(order) THEN <<>>
    ELSE LET featureName == order[i]
             feature == features[featureName]
             properties == getFeatureProperties(feature)
             this == IF feature = JNull
                     THEN <<toShadowMessage(id, env, featureName, JNull)>>
                     ELSE IF properties.ok
                          THEN <<toShadowMessage(id, env, featureName, properties.value)>>
                          ELSE <<>>
         IN  this \o featureMessages(id, env, features, order, i + 1)

\* the value the attributes and features are looked up in
filteredValue(filters, env) == filterPayload(filters, integrate(Split(env.Path), env.Value))

\* the features map the handler ranges over (empty when there is none)
featuresOf(filters, env) ==
    LET found == search(valueFeaturesTag, filteredValue(filters, env))
    IN  IF found.called /\ IsMap(found.arg) THEN found.arg.m ELSE EmptyMap

\* the features map after the loop of toShadowMessages: getFeatureProperties has been
\* called on every feature that is not nil
featuresAfterLoop(id, filters, tfilter, env) ==
    LET features == featuresOf(filters, env)
    IN  IF /\ isShadowMessage(id, env)
           /\ ~(tfilter # NilRegexp /\ MatchString(tfilter, TopicString(env.Topic)))
        THEN [f \in DOMAIN features |->
                 IF features[f] = JNull THEN JNull
                 ELSE getFeatureProperties(features[f]).obj]
        ELSE features

\* toShadowMessages returning after the first feature the range statement visits
toShadowMessages_firstFeatureOnly(id, filters, tfilter, env, order) ==
    IF isShadowMessage(id, env)
    THEN IF tfilter # NilRegexp /\ MatchString(tfilter, TopicString(env.Topic))
         THEN [messages |-> <<>>, ok |-> TRUE]
         ELSE LET value == filteredValue(filters, env)
              IN  IF value = JNull
                  THEN [messages |-> <<>>, ok |-> TRUE]
                  ELSE LET attributes == search(valueAttributesTag, value)
                           forAttributes ==
                               IF attributes.called
                               THEN <<toShadowMessage(id, env, <<>>, attributes.arg)>>
                               ELSE <<>>
                           forFeatures ==
                               featureMessages(id, env, featuresOf(filters, env),
                                               IF order = <<>> THEN <<>>
                                               ELSE <<order[1]>>, 1)
                       IN  [messages |-> forAttributes \o forFeatures, ok |-> TRUE]
    ELSE [messages |-> <<>>, ok |-> FALSE]

\* toShadowMessages without the test of the topic filter
toShadowMessages_noTopicFilter(id, filters, tfilter, env, order) ==
    IF isShadowMessage(id, env)
    THEN LET value == filteredValue(filters, env)
         IN  IF value = JNull
             THEN [messages |-> <<>>, ok |-> TRUE]
             ELSE LET attributes == search(valueAttributesTag, value)
                      forAttributes ==
                          IF attributes.called
                          THEN <<toShadowMessage(id, env, <<>>, attributes.arg)>>
                          ELSE <<>>
                      forFeatures ==
                          featureMessages(id, env, featuresOf(filters, env), order, 1)
                  IN  [messages |-> forAttributes \o forFeatures, ok |-> TRUE]
    ELSE [messages |-> <<>>, ok |-> FALSE]

\* toShadowMessages testing the topic filter before it classifies the envelope
toShadowMessages_filterFirst(id, filters, tfilter, env, order) ==
    IF tfilter # NilRegexp /\ MatchString(tfilter, TopicString(env.Topic))
    THEN [messages |-> <<>>, ok |-> TRUE]
    ELSE IF isShadowMessage(id, env)
    THEN LET value == filteredValue(filters, env)
         IN  IF value = JNull
             THEN [messages |-> <<>>, ok |-> TRUE]
             ELSE LET attributes == search(valueAttributesTag, value)
                      forAttributes ==
                          IF attributes.called
                          THEN <<toShadowMessage(id, env, <<>>, attributes.arg)>>
                          ELSE <<>>
                      forFeatures ==
                          featureMessages(id, env, featuresOf(filters, env), order, 1)
                  IN  [messages |-> forAttributes \o forFeatures, ok |-> TRUE]
    ELSE [messages |-> <<>>, ok |-> FALSE]

toShadowMessages(id, filters, tfilter, env, order) ==
    IF isShadowMessage(id, env)
    THEN IF tfilter # NilRegexp /\ MatchString(tfilter, TopicString(env.Topic))
         THEN [messages |-> <<>>, ok |-> TRUE]
         ELSE LET value == filteredValue(filters, env)
              IN  IF value = JNull
                  THEN [messages |-> <<>>, ok |-> TRUE]
                  ELSE LET attributes == search(valueAttributesTag, value)
                           forAttributes ==
                               IF attributes.called
                               THEN <<toShadowMessage(id, env, <<>>, attributes.arg)>>
                               ELSE <<>>
                           forFeatures ==
                               featureMessages(id, env, featuresOf(filters, env), order, 1)
                       IN  [messages |-> forAttributes \o forFeatures, ok |-> TRUE]
    ELSE [messages |-> <<>>, ok |-> FALSE]

\* a panic while a message is built ends the call: nothing is returned
panics(built) == \E i \in 1..Len(built) : built[i].panic
returned(built) ==
    IF panics(built) THEN <<>>
    ELSE [i \in 1..Len(built) |-> [topic |-> built[i].topic, payload |-> built[i].payload]]

s_event == <<"e", "v", "e", "n", "t">>
s_telemetry == <<"t", "e", "l", "e", "m", "e", "t", "r", "y">>

\* h.defaultHandler: routing.AddTimestamp(routing.NewEventsHandler("", tenantID, deviceID)) of
\* the suite connector: the message goes to event/<tenant>/<device> or
\* telemetry/<tenant>/<device> with a timestamp header added to its payload
defaultHandler(tenant, id, msg) ==
    LET prefix == IF Head(msg.topic) = "e" THEN s_event ELSE s_telemetry
    IN  [messages |-> Messages(<<[topic |-> prefix \o s_slash \o tenant \o s_slash \o id,
                                  payload |-> [kind |-> "timestamped", of |-> msg.payload]]>>),
         err |-> NoErr, panicked |-> FALSE]

\* json.Unmarshal(msg.Payload, &env)
UnmarshalEnvelope(payload) == payload.kind = "envelope"

\* the features map of the message as HandleMessage leaves it
featuresAfter(id, filters, tfilter, msg) ==
    IF UnmarshalEnvelope(msg.payload)
    THEN featuresAfterLoop(id, filters, tfilter, msg.payload.env)
    ELSE EmptyMap

\* HandleMessage handing the message to the default handler when no shadow message is built
deviceHandler_HandleMessage_passEmpty(tenant, id, filters, tfilter, msg, order) ==
    IF /\ UnmarshalEnvelope(msg.payload)
       /\ toShadowMessages(id, filters, tfilter, msg.payload.env, order).ok
       /\ toShadowMessages(id, filters, tfilter, msg.payload.env, order).messages # <<>>
    THEN LET built == toShadowMessages(id, filters, tfilter, msg.payload.env, order).messages
         IN  [messages |-> Messages(returned(built)), err |-> NoErr, panicked |-> panics(built)]
    ELSE defaultHandler(tenant, id, msg)

deviceHandler_HandleMessage(tenant, id, filters, tfilter, msg, order) ==
    IF UnmarshalEnvelope(msg.payload)
       /\ toShadowMessages(id, filters, tfilter, msg.payload.env, order).ok
    THEN LET built == toShadowMessages(id, filters, tfilter, msg.payload.env, order).messages
         IN  [messages |-> Messages(returned(built)), err |-> NoErr, panicked |-> panics(built)]
    ELSE defaultHandler(tenant, id, msg)

-----------------------------------------------------------------------------
(* The filter settings (package config). *)

s_dotstar == <<".", "*">>
\* the text "[" is not a regular expression
s_bracket == <<"[">>

\* regexp.Compile for the texts  .*  ,  .*<s>$  ,  ^<s>.*  ,  [  and  <s>
regexp_Compile(text) ==
    CASE text = s_bracket -> [exp |-> NilRegexp, err |-> "error parsing regexp"]
      [] text = s_dotstar -> [exp |-> [kind |-> "all", s |-> <<>>], err |-> NoErr]
      [] Len(text) > 3 /\ HasPrefix(text, s_dotstar) /\ HasSuffix(text, <<"$">>) ->
            [exp |-> [kind |-> "suffix", s |-> SubSeq(text, 3, Len(text) - 1)], err |-> NoErr]
      [] Len(text) > 3 /\ HasPrefix(text, <<"^">>) /\ HasSuffix(text, s_dotstar) ->
            [exp |-> [kind |-> "prefix", s |-> SubSeq(text, 2, Len(text) - 2)], err |-> NoErr]
      [] OTHER -> [exp |-> [kind |-> "text", s |-> text], err |-> NoErr]

\* regexp.Regexp.String: the text the expression was compiled from
regexp_String(exp) ==
    CASE exp.kind = "all" -> s_dotstar
      [] exp.kind = "suffix" -> s_dotstar \o exp.s \o <<"$">>
      [] exp.kind = "prefix" -> <<"^">> \o exp.s \o s_dotstar
      [] exp.kind = "text" -> exp.s
      [] exp.kind = "nil" -> <<>>

RECURSIVE compilePayloadFilters(_, _, _)
\* the loop of CompileFilters over settings.PayloadFilters
compilePayloadFilters(filters, i, compiled) ==
    IF i > Len(filters) THEN [regexps |-> compiled, err |-> NoErr]
    ELSE LET c == regexp_Compile(filters[i])
         IN  IF c.err = NoErr
             THEN compilePayloadFilters(filters, i + 1, Append(compiled, c.exp))
             ELSE [regexps |-> compiled, err |-> c.err]

\* CompileFilters accepting every text as a payload filter
CompileFilters_skipInvalid(st) ==
    LET topic == regexp_Compile(st.TopicFilter)
    IN  IF Len(st.TopicFilter) > 0 /\ topic.err # NoErr
        THEN [settings |-> st, err |-> topic.err]
        ELSE [settings |-> IF Len(st.TopicFilter) > 0
                           THEN [st EXCEPT !.TopicFilterRegexp = topic.exp] ELSE st,
              err |-> NoErr]

\* CloudSettings.CompileFilters: the settings after the call and the error returned
CompileFilters(st) ==
    LET topic == regexp_Compile(st.TopicFilter)
    IN  IF Len(st.TopicFilter) > 0 /\ topic.err # NoErr
        THEN [settings |-> st, err |-> topic.err]
        ELSE LET st1 == IF Len(st.TopicFilter) > 0
                        THEN [st EXCEPT !.TopicFilterRegexp = topic.exp] ELSE st
                 pf == compilePayloadFilters(st.PayloadFilters, 1, st.PayloadFiltersRegexp)
             IN  [settings |-> [st1 EXCEPT !.PayloadFiltersRegexp = pf.regexps],
                  err |-> pf.err]

-----------------------------------------------------------------------------
(* The message handlers and the message bus (package bus). *)

deviceHandlerName == "passthrough_device_handler"
topicsLocal == 
    <<"e", "v", "e", "n", "t", "/", "#", ",", "e", "/", "#", ",", "t", "e", "l", "e", "m", "e", "t", "r", "y", "/", "#", ",", "t", "/", "#">>
stateHandlerName == "shadow_state_handler"
\* connector.TopicEmpty
TopicEmpty == <<>>

\* passthrough.CreateDefaultDeviceHandler(), state.CreateDefaultShadowStateHandler() and
\* test.NewDummyMessageHandler(name, topics, initErr)
DeviceHandler == [kind |-> "device"]
ShadowStateHandler == [kind |-> "state"]
DummyHandler(name, topics, err) == [kind |-> "dummy", name |-> name, topics |-> topics, err |-> err]

\* MessageHandler.Name
handler_Name(h) ==
    CASE h.kind = "device" -> deviceHandlerName
      [] h.kind = "state" -> stateHandlerName
      [] h.kind = "dummy" -> h.name

\* MessageHandler.Init: the error it returns
handler_Init(h, st) == IF h.kind = "dummy" THEN h.err ELSE NoErr

\* MessageHandler.Topics after Init(st): the state handler joins the four accepted topics
\* of the device with commas
handler_Topics(h, st) ==
    CASE h.kind = "device" -> topicsLocal
      [] h.kind = "state" ->
            topicBaseTemplate(st.DeviceID) \o updateSuffix \o <<",">>
            \o topicBaseTemplate(st.DeviceID) \o deleteSuffix \o <<",">>
            \o topicBaseTemplate(st.DeviceID) \o namedShadowAdditionTopicTemplate(<<"+">>)
                \o updateSuffix \o <<",">>
            \o topicBaseTemplate(st.DeviceID) \o namedShadowAdditionTopicTemplate(<<"+">>)
                \o deleteSuffix
      [] h.kind = "dummy" -> h.topics

\* router.AddHandler(name, subscribeTopic, subscriber, publishTopic, publisher, handlerFunc)
AddHandler(rt, name, topics, sub, topic, pub, h) ==
    Append(rt, [name |-> name, topics |-> topics, sub |-> sub, topic |-> topic,
                pub |-> pub, handler |-> h])

RECURSIVE MessageBus_stopAtSkipped(_, _, _, _, _, _)
\* the loop of MessageBus leaving at the first handler it skips
MessageBus_stopAtSkipped(rt, pub, sub, st, hs, i) ==
    IF i > Len(hs) THEN rt
    ELSE IF handler_Init(hs[i], st) # NoErr THEN rt
    ELSE IF Len(handler_Topics(hs[i], st)) = 0 THEN rt
    ELSE MessageBus_stopAtSkipped(
             AddHandler(rt, handler_Name(hs[i]), handler_Topics(hs[i], st), sub, TopicEmpty,
                        pub, hs[i]),
             pub, sub, st, hs, i + 1)

RECURSIVE MessageBus(_, _, _, _, _, _)
\* MessageBus(router, pub, sub, settings, handlers): the loop from handler i on
MessageBus(rt, pub, sub, st, hs, i) ==
    IF i > Len(hs) THEN rt
    ELSE IF handler_Init(hs[i], st) # NoErr THEN MessageBus(rt, pub, sub, st, hs, i + 1)
    ELSE IF Len(handler_Topics(hs[i], st)) = 0 THEN MessageBus(rt, pub, sub, st, hs, i + 1)
    ELSE MessageBus(
             AddHandler(rt, handler_Name(hs[i]), handler_Topics(hs[i], st), sub, TopicEmpty,
                        pub, hs[i]),
             pub, sub, st, hs, i + 1)

commandsHandlerName == "passthrough_commands_request_handler"
commandsTopics == 
    <<"c", "o", "m", "m", "a", "n", "d", "/", "/", "+", "/", "r", "e", "q", "/", "#", ",", "c", "m", "d", "/", "/", "+", "/", "q", "/", "#">>

-----------------------------------------------------------------------------
(* The commands request bus (package bus). *)

\* the handler the filter wraps; message.PassthroughHandler in the tests of the filter
innerHandler(msg) ==
    [messages |-> Messages(<<[topic |-> msg.topic, payload |-> msg.payload]>>), err |-> NoErr]

\* filter accepting every identity the device ID is a prefix of
filter_anyPrefix(id, msg) ==
    IF UnmarshalEnvelope(msg.payload)
       /\ HasPrefix(ThingID(msg.payload.env.Topic), id)
    THEN [messages |-> innerHandler(msg).messages, err |-> innerHandler(msg).err,
          inner |-> [invoked |-> TRUE, arg |-> msg]]
    ELSE [messages |-> Messages(<<>>), err |-> NoErr, inner |-> [invoked |-> FALSE]]

\* filter(deviceID, h): the handler CommandsReqBus registers
filter(id, msg) ==
    IF UnmarshalEnvelope(msg.payload)
       /\ (\/ ThingID(msg.payload.env.Topic) = id
           \/ HasPrefix(ThingID(msg.payload.env.Topic), id \o s_colon))
    THEN [messages |-> innerHandler(msg).messages, err |-> innerHandler(msg).err,
          inner |-> [invoked |-> TRUE, arg |-> msg]]
    ELSE [messages |-> Messages(<<>>), err |-> NoErr, inner |-> [invoked |-> FALSE]]

-----------------------------------------------------------------------------
(* Configurations and messages of the model. *)

s_t == <<"t">>
s_x == <<"x">>
s_d == <<"d">>
k_a == <<"a">>
k_f == <<"f">>
k_g == <<"g">>
k_p == <<"p">>
k_q == <<"q">>

DeviceIDs == {s_t \o s_colon \o s_d, s_t \o s_colon \o s_d \o s_colon \o <<"c">>}
TenantID == <<"i", "d">>

\* .*   .*/q$   .*/0/p$
PayloadFilterPool ==
    {[kind |-> "all", s |-> <<>>],
     [kind |-> "suffix", s |-> s_slash \o k_q],
     [kind |-> "suffix", s |-> s_slash \o <<"0">> \o s_slash \o k_p]}
\* the lists of distinct payload filters, in every order
PayloadFilterLists ==
    {l \in UNION {[1..n -> PayloadFilterPool] : n \in 0..MaxFilters} :
        \A i, j \in 1..Len(l) : l[i] = l[j] => i = j}
\* none   .*   ^t/d:c/.*
TopicFilters ==
    {NilRegexp,
     [kind |-> "all", s |-> <<>>],
     [kind |-> "prefix", s |-> s_t \o s_slash \o s_d \o s_colon \o <<"c">> \o s_slash]}

R1 == Obj2(k_p, JNum(1), k_q, JStr(s_t))
R2 == Obj1(k_p, JNum(2))

\* payloads of accepted notifications
NotificationPayloads ==
    {TextPayload} \cup
    {JsonPayload(v) : v \in
        {JNum(5), JObj(EmptyMap), Obj1(k_p, JNum(1)),
         Obj1(valueStateTag, JStr(s_x)),
         Obj1(valueStateTag, JObj(EmptyMap)),
         Obj1(valueStateTag, Obj1(k_q, JObj(EmptyMap))),
         Obj1(valueStateTag, Obj1(valueReportedTag, JNull)),
         Obj1(valueStateTag, Obj1(valueReportedTag, JNum(5))),
         Obj1(valueStateTag, Obj1(valueReportedTag, R1)),
         Obj2(valueStateTag, Obj2(valueReportedTag, R2, k_q, R1), k_p, JNum(7))}}

\* names of the named shadows AWS sends notifications for
ShadowNames == {k_f, <<"c">> \o s_colon \o k_f}

\* the topic AWS publishes an accepted notification on
AcceptedTopic(id, named, name, op) ==
    topicBaseTemplate(id)
        \o (IF named THEN namedShadowAdditionTopicTemplate(name) ELSE <<>>)
        \o (IF op = "update" THEN updateSuffix ELSE deleteSuffix)

\* the messages the router can hand to the state handler: one per subscribed topic and
\* payload (named, name and op record how the topic was built), and one without a topic
Notifications(id) ==
    {[hasTopic |-> TRUE, topic |-> AcceptedTopic(id, FALSE, <<>>, op), payload |-> p,
      named |-> FALSE, name |-> <<>>, op |-> op] :
        op \in {"update", "delete"}, p \in NotificationPayloads}
    \cup
    {[hasTopic |-> TRUE, topic |-> AcceptedTopic(id, TRUE, n, op), payload |-> p,
      named |-> TRUE, name |-> n, op |-> op] :
        n \in ShadowNames, op \in {"update", "delete"}, p \in NotificationPayloads}
    \cup
    {[hasTopic |-> FALSE, topic |-> <<>>, payload |-> p, named |-> FALSE, name |-> <<>>,
      op |-> "none"] : p \in NotificationPayloads}

\* Ditto topics of the envelopes
TwinCommandTopics ==
    {[Namespace |-> s_t, EntityName |-> e, Group |-> GroupThings, Channel |-> ChannelTwin,
      Criterion |-> CriterionCommands, Action |-> a] :
        e \in {s_d, s_d \o s_colon \o <<"c">>, s_d \o <<"s">>},
        a \in {ActionCreate, ActionModify, ActionMerge, ActionDelete,
               <<"r", "e", "t", "r", "i", "e", "v", "e">>}}
    \cup
    {[Namespace |-> s_x, EntityName |-> s_d, Group |-> GroupThings, Channel |-> ChannelTwin,
      Criterion |-> CriterionCommands, Action |-> ActionModify]}
OtherTopics ==
    {[Namespace |-> s_t, EntityName |-> s_d, Group |-> GroupThings,
      Channel |-> <<"l", "i", "v", "e">>, Criterion |-> <<"m", "e", "s", "s", "a", "g", "e", "s">>,
      Action |-> <<"h", "e", "a", "t">>],
     [Namespace |-> s_t, EntityName |-> s_d, Group |-> GroupThings,
      Channel |-> ChannelTwin, Criterion |-> <<"e", "v", "e", "n", "t", "s">>,
      Action |-> ActionModify],
     [Namespace |-> s_t, EntityName |-> s_d,
      Group |-> <<"p", "o", "l", "i", "c", "i", "e", "s">>,
      Channel |-> ChannelTwin, Criterion |-> CriterionCommands, Action |-> ActionModify]}

EnvelopePaths ==
    {<<>>,
     s_slash,
     s_slash \o valueAttributesTag,
     s_slash \o valueAttributesTag \o s_slash \o k_a,
     s_slash \o valueFeaturesTag,
     s_slash \o valueFeaturesTag \o s_slash \o k_f,
     s_slash \o valueFeaturesTag \o s_slash \o k_f \o s_slash \o valuePropertiesTag,
     s_slash \o valueFeaturesTag \o s_slash \o k_f \o s_slash \o valuePropertiesTag
         \o s_slash \o k_p,
     s_slash \o valueFeaturesTag \o s_slash \o k_f \o s_slash \o valueDefinitionTag,
     s_slash \o k_q}

Definition1 == JArr(<<JStr(s_x)>>)

EnvelopeValues ==
    {JNull,
     JNum(200),
     JObj(EmptyMap),
     JArr(<<>>),
     Obj1(k_p, JNum(1)),
     Obj2(k_p, JNum(1), k_q, JNum(2)),
     Obj2(k_p, JArr(<<Obj1(k_p, JNum(1)), Obj1(k_q, JNum(2)), Obj1(k_a, JNum(3))>>),
          k_q, JNum(2)),
     Obj1(valuePropertiesTag, Obj1(k_p, JNum(1))),
     Obj1(valuePropertiesTag, JObj(EmptyMap)),
     Obj1(valueDefinitionTag, Definition1),
     Obj2(valuePropertiesTag, Obj2(k_p, JNum(1), k_q, JNum(2)), valueDefinitionTag, Definition1),
     Obj2(k_f, Obj1(valuePropertiesTag, Obj1(k_q, JNum(2))),
          k_g, Obj1(valuePropertiesTag, Obj1(k_p, JNum(1)))),
     Obj2(k_f, JNull, k_g, JObj(EmptyMap)),
     Obj2(valueAttributesTag, Obj1(k_a, JNum(1)),
          valueFeaturesTag, Obj2(k_f, Obj1(valuePropertiesTag, Obj1(k_p, JNum(1))), k_g, JNull)),
     Obj2(valueAttributesTag, JNum(5), valueFeaturesTag, JNum(5))}

Envelopes ==
    {[Topic |-> t, Path |-> p, Value |-> v, Status |-> 0] :
        t \in TwinCommandTopics \cup OtherTopics, p \in EnvelopePaths, v \in EnvelopeValues}
    \cup
    {[Topic |-> t, Path |-> s_slash \o valueAttributesTag, Value |-> Obj1(k_a, JNum(1)),
      Status |-> 204] : t \in TwinCommandTopics}

\* topics of the local broker the device handler is subscribed on: e/# and t/#
LocalTopics == {<<"e">>, <<"t">>}

\* the messages the router can hand to the device handler: a payload that is no envelope,
\* or an envelope with its topic
DeviceMessages ==
    {[topic |-> lt, payload |-> TextPayload] : lt \in LocalTopics}
    \cup
    {[topic |-> <<"e">>, payload |-> [kind |-> "envelope", env |-> env]] : env \in Envelopes}
    \cup
    {[topic |-> <<"t">>, payload |-> [kind |-> "envelope", env |-> env]] :
        env \in {e \in Envelopes : e.Topic \in OtherTopics \/ e.Status # 0}}

\* live messages sent to the device, to a child, to things with a similar name
CommandTopics ==
    {[Namespace |-> n, EntityName |-> e, Group |-> GroupThings,
      Channel |-> <<"l", "i", "v", "e">>,
      Criterion |-> <<"m", "e", "s", "s", "a", "g", "e", "s">>,
      Action |-> <<"i", "n", "s", "t", "a", "l", "l">>] :
        n \in {s_t, <<"a">> \o s_t},
        e \in {s_d, s_d \o s_colon \o <<"c">>, s_d \o <<"s">>, <<"c">>,
               s_d \o s_colon \o <<"c">> \o s_colon \o <<"e">>}}
CommandMessages ==
    {[topic |-> <<"c">>, payload |-> TextPayload]}
    \cup {[topic |-> <<"c">>,
           payload |-> [kind |-> "envelope",
                        env |-> [Topic |-> t, Path |-> s_slash, Value |-> v, Status |-> 0]]] :
            t \in CommandTopics, v \in {JNull, Obj1(k_p, JNum(1))}}

\* the filter texts of the configuration:  .*  ,  .*/q$  ,  ^t/d:c/.*  and  [
ConfiguredTopicFilters == {<<>>, s_dotstar, <<"^", "t", "/", "d", ":", "c", "/", ".", "*">>, s_bracket}
ConfiguredPayloadFilters ==
    UNION {[1..n -> {s_dotstar, <<".", "*", "/", "q", "$">>, s_bracket}] : n \in 0..MaxFilters}
\* the settings main has read: nothing is compiled
ConfiguredSettings ==
    {[DeviceID |-> id, TenantID |-> TenantID,
      TopicFilter |-> tf, TopicFilterRegexp |-> NilRegexp,
      PayloadFilters |-> pf, PayloadFiltersRegexp |-> <<>>] :
        id \in DeviceIDs, tf \in ConfiguredTopicFilters, pf \in ConfiguredPayloadFilters}

\* the handlers given to the message bus: the two handlers of the connector and the dummy
\* handlers of the tests of the bus, without or with topics, Init failing or not
HandlerPool ==
    {DeviceHandler, ShadowStateHandler}
    \cup {DummyHandler(n, t, e) : n \in {"test_handler_1", "test_handler_2", "test_handler_3"},
                                  t \in {<<>>, <<"t", "e", "l", "e", "m", "e", "t", "r", "y", "/", "#">>},
                                  e \in {NoErr, "init error"}}
\* lists of handlers with different names
HandlerLists ==
    {hs \in UNION {[1..n -> HandlerPool] : n \in 0..MaxHandlers} :
        \A i, j \in 1..Len(hs) : handler_Name(hs[i]) = handler_Name(hs[j]) => i = j}

-----------------------------------------------------------------------------
(* The connector: the router runs one handler at a time per subscription. *)

Idle == [handler |-> "none"]
\* no goroutine is reading or writing the map
NoAccess == [write |-> [active |-> FALSE], read |-> [active |-> FALSE]]

\* done := make(chan bool, 1)
DoneCapacity == 1
\* startRouter has not been called, or has returned no router: no goroutine was started
NotStarted ==
    [run |-> "none", lifecycle |-> "none", running |-> FALSE, closed |-> FALSE,
     cancelled |-> FALSE, done |-> 0, sent |-> 0, connected |-> "none",
     cacheClosed |-> FALSE, cloudDisconnected |-> FALSE, awsDisconnected |-> FALSE]
\* startRouter has returned the router: the goroutine that will call router.Run and the
\* goroutine that waits for router.Running() have been started, `done` is empty
Started == [NotStarted EXCEPT !.run = "start", !.lifecycle = "waitRunning"]
\* the router runs its handlers and the connection to AWS is established
Serving ==
    [Started EXCEPT !.run = "Run", !.running = TRUE, !.lifecycle = "waitCtx",
                    !.connected = "ok"]

Range(f) == {f[x] : x \in DOMAIN f}
\* the orders a range statement can visit the keys of a map in
Orders(m) == {o \in [1..Cardinality(DOMAIN m) -> DOMAIN m] : Range(o) = DOMAIN m}

\* the publishers and subscribers startRouter creates
awsPub == "awsPub"
awsSub == "awsSub"
mosquittoSub == "mosquittoSub"
cloudPub == "cloudPub"

\* the handlers startRouter adds to the router: the two message buses and the commands
\* request bus (the buses of the suite connector library are left out)
startRouter(st, handlers) ==
    LET deviceBus == MessageBus(<<>>, awsPub, mosquittoSub, st, handlers.device, 1)
        cloudBus == MessageBus(deviceBus, cloudPub, awsSub, st, handlers.cloud, 1)
    IN  AddHandler(cloudBus, commandsHandlerName, commandsTopics, awsSub, TopicEmpty, cloudPub,
                   [kind |-> "commands"])

\* the settings a connector with these identities and compiled filters was started with
SettingsOf(id, tenant, filters, tfilter) ==
    [DeviceID |-> id, TenantID |-> tenant,
     TopicFilter |-> regexp_String(tfilter), TopicFilterRegexp |-> tfilter,
     PayloadFilters |-> [i \in 1..Len(filters) |-> regexp_String(filters[i])],
     PayloadFiltersRegexp |-> filters]

\* the handlers main creates
MainHandlers == [device |-> <<DeviceHandler>>, cloud |-> <<>>]
\* the handlers of a connector whose cloud side has the shadow state handler
BothHandlers == [device |-> <<DeviceHandler>>, cloud |-> <<ShadowStateHandler>>]

Registered(name) == \E i \in 1..Len(router) : router[i].name = name
\* main waits for a signal and the router runs its handlers
Running == pc = "running" /\ life.running /\ ~life.closed

\* the connector running with the default settings (no filters) and both handlers
Init ==
    /\ deviceID \in DeviceIDs
    /\ tenantID = TenantID
    /\ payloadFilters = <<>>
    /\ topicFilter = NilRegexp
    /\ shadows = EmptyMap
    /\ call = Idle
    /\ settings = SettingsOf(deviceID, tenantID, payloadFilters, topicFilter)
    /\ created = BothHandlers
    /\ router = startRouter(settings, created)
    /\ pc = "running"
    /\ access = NoAccess
    /\ life = Serving

\* the connector running with any of the filter settings of the model
InitFilters ==
    /\ deviceID \in DeviceIDs
    /\ tenantID = TenantID
    /\ payloadFilters \in PayloadFilterLists
    /\ topicFilter \in TopicFilters
    /\ shadows = EmptyMap
    /\ call = Idle
    /\ settings = SettingsOf(deviceID, tenantID, payloadFilters, topicFilter)
    /\ created = MainHandlers
    /\ router = startRouter(settings, created)
    /\ pc = "running"
    /\ access = NoAccess
    /\ life = Serving

\* the router calls shadowStateHandler.HandleMessage with a notification of AWS
StateHandle(messages) ==
    /\ Running /\ Registered(stateHandlerName)
    /\ call = Idle
    /\ \E message \in messages :
        LET r == shadowStateHandler_HandleMessage(deviceID, shadows, message)
        IN  /\ shadows' = r.shadows
            /\ call' = [handler |-> "state", msg |-> message, messages |-> r.messages,
                        err |-> r.err, before |-> shadows]
    /\ UNCHANGED <<deviceID, tenantID, payloadFilters, topicFilter, mainVars, access>>

RECURSIVE WithTombstones(_, _)
\* next with every key of prev that it lacks set to null, nested objects alike
WithTombstones(prev, next) ==
    IF IsMap(prev) /\ IsMap(next)
    THEN JObj([k \in DOMAIN prev.m \cup DOMAIN next.m |->
                  IF k \notin DOMAIN next.m THEN JNull
                  ELSE IF k \in DOMAIN prev.m THEN WithTombstones(prev.m[k], next.m[k])
                  ELSE next.m[k]])
    ELSE next

\* a message with the reported state merged against the state the shadows hold for its topic
MergedAgainst(states, id, m) ==
    LET key == getShadowID(id, m.topic \o s_slash \o s_accepted)
    IN  IF /\ m.payload.kind = "json"
           /\ key \in DOMAIN states
        THEN [m EXCEPT !.payload =
                 JsonPayload(Obj1(valueStateTag, Obj1(valueReportedTag,
                     WithTombstones(states[key],
                                    m.payload.v.m[valueStateTag].m[valueReportedTag]))))]
        ELSE m

\* DeviceHandle merging the updates of the commands with one of the actions against the
\* state the shadows hold
DeviceHandleMerging(messages, actions) ==
    /\ Running /\ Registered(deviceHandlerName)
    /\ call = Idle
    /\ \E msg \in messages :
        \E order \in (IF msg.payload.kind = "envelope"
                      THEN Orders(featuresOf(payloadFilters, msg.payload.env))
                      ELSE {<<>>}) :
            LET r == deviceHandler_HandleMessage(tenantID, deviceID, payloadFilters,
                                                 topicFilter, msg, order)
                merging == /\ msg.payload.kind = "envelope"
                           /\ isShadowMessage(deviceID, msg.payload.env)
                           /\ msg.payload.env.Topic.Action \in actions
                merged == [i \in 1..Len(r.messages.list) |->
                              MergedAgainst(shadows, deviceID, r.messages.list[i])]
            IN  call' = [handler |-> "device", msg |-> msg, order |-> order,
                         messages |-> IF merging THEN [r.messages EXCEPT !.list = merged]
                                      ELSE r.messages,
                         err |-> r.err, panicked |-> r.panicked, before |-> shadows,
                         features |-> featuresAfter(deviceID, payloadFilters, topicFilter, msg)]
    /\ UNCHANGED <<deviceID, tenantID, payloadFilters, topicFilter, shadows, mainVars, access>>

\* DeviceHandle merging against the shadows whatever the action
DeviceHandle_mergeAlways(messages) ==
    DeviceHandleMerging(messages, {ActionCreate, ActionModify, ActionMerge, ActionDelete})

\* DeviceHandle merging the whole reported object of a modify against the shadows,
\* whatever the path of the command
DeviceHandle_mergeModify(messages) ==
    DeviceHandleMerging(messages, {ActionCreate, ActionModify})

\* DeviceHandle storing what it publishes for the device in the shadows at once
DeviceHandle_speculative(messages) ==
    /\ Running /\ Registered(deviceHandlerName)
    /\ call = Idle
    /\ \E msg \in messages :
        \E order \in (IF msg.payload.kind = "envelope"
                      THEN Orders(featuresOf(payloadFilters, msg.payload.env))
                      ELSE {<<>>}) :
            LET r == deviceHandler_HandleMessage(tenantID, deviceID, payloadFilters,
                                                 topicFilter, msg, order)
            IN  /\ call' = [handler |-> "device", msg |-> msg, order |-> order,
                            messages |-> r.messages, err |-> r.err, panicked |-> r.panicked,
                            before |-> shadows,
                            features |-> featuresAfter(deviceID, payloadFilters, topicFilter, msg)]
                /\ shadows' = IF r.messages.list # <<>>
                              THEN MapPut(shadows, deviceID, r.messages.list[1].payload)
                              ELSE shadows
    /\ UNCHANGED <<deviceID, tenantID, payloadFilters, topicFilter, mainVars, access>>

\* the router calls deviceHandler.HandleMessage with a message of the local broker
DeviceHandle(messages) ==
    /\ Running /\ Registered(deviceHandlerName)
    /\ call = Idle
    /\ \E msg \in messages :
        \E order \in (IF msg.payload.kind = "envelope"
                      THEN Orders(featuresOf(payloadFilters, msg.payload.env))
                      ELSE {<<>>}) :
            LET r == deviceHandler_HandleMessage(tenantID, deviceID, payloadFilters,
                                                 topicFilter, msg, order)
            IN  call' = [handler |-> "device", msg |-> msg, order |-> order,
                         messages |-> r.messages, err |-> r.err, panicked |-> r.panicked,
                         before |-> shadows,
                         features |-> featuresAfter(deviceID, payloadFilters, topicFilter, msg)]
    /\ UNCHANGED <<deviceID, tenantID, payloadFilters, topicFilter, shadows, mainVars, access>>

\* the router has published what the handler returned and acknowledged the message
RouterAck ==
    /\ call # Idle
    /\ call.handler # "aws"
    /\ call' = Idle
    /\ UNCHANGED <<deviceID, tenantID, payloadFilters, topicFilter, shadows, mainVars, access>>

\* the router calls deviceHandler.HandleMessage once more with the message it has just
\* handled (a redelivery), the settings and the shadows being what they were
DeviceHandleAgain ==
    /\ call # Idle
    /\ call.handler = "device"
    /\ \E order \in (IF call.msg.payload.kind = "envelope"
                     THEN Orders(featuresOf(payloadFilters, call.msg.payload.env))
                     ELSE {<<>>}) :
            LET r == deviceHandler_HandleMessage(tenantID, deviceID, payloadFilters,
                                                 topicFilter, call.msg, order)
            IN  call' = [handler |-> "again", msg |-> call.msg, order |-> order,
                         messages |-> r.messages, err |-> r.err, panicked |-> r.panicked,
                         before |-> shadows,
                         features |-> featuresAfter(deviceID, payloadFilters, topicFilter,
                                                    call.msg),
                         first |-> [order |-> call.order, messages |-> call.messages,
                                    err |-> call.err, panicked |-> call.panicked]]
    /\ UNCHANGED <<deviceID, tenantID, payloadFilters, topicFilter, shadows, mainVars, access>>

\* the router calls the handler of the commands request bus with a message of the cloud
CommandHandle ==
    /\ Running /\ Registered(commandsHandlerName)
    /\ call = Idle
    /\ \E msg \in CommandMessages :
        LET r == filter(deviceID, msg)
        IN  call' = [handler |-> "command", msg |-> msg, messages |-> r.messages,
                     err |-> r.err, inner |-> r.inner, before |-> shadows]
    /\ UNCHANGED <<deviceID, tenantID, payloadFilters, topicFilter, shadows, mainVars, access>>

\* the state before MessageBus is called with a list of handlers: nothing is initialized
InitBus ==
    /\ settings \in {SettingsOf(id, TenantID, <<>>, NilRegexp) : id \in DeviceIDs}
    /\ created \in {[device |-> hs, cloud |-> <<>>] : hs \in HandlerLists}
    /\ deviceID = <<>>
    /\ tenantID = <<>>
    /\ payloadFilters = <<>>
    /\ topicFilter = NilRegexp
    /\ shadows = EmptyMap
    /\ call = Idle
    /\ router = <<>>
    /\ pc = "bus"
    /\ access = NoAccess
    /\ life = NotStarted

\* deviceHandler.Init, called by MessageBus when the device handler is in the list
InitFields(hs, st) ==
    IF \E i \in 1..Len(hs) : hs[i] = DeviceHandler
    THEN /\ tenantID' = st.TenantID
         /\ deviceID' = st.DeviceID
         /\ payloadFilters' = st.PayloadFiltersRegexp
         /\ topicFilter' = st.TopicFilterRegexp
    ELSE UNCHANGED <<tenantID, deviceID, payloadFilters, topicFilter>>

\* MessageBus(router, awsPub, mosquittoSub, settings, handlers)
MessageBusCall ==
    /\ pc = "bus"
    /\ router' = MessageBus(router, awsPub, mosquittoSub, settings, created.device, 1)
    /\ InitFields(created.device, settings)
    /\ pc' = "wired"
    /\ UNCHANGED <<shadows, call, settings, created, access, life>>

NoHandlers == [device |-> <<>>, cloud |-> <<>>]

\* main has read the settings and the device ID
InitMain ==
    /\ settings \in ConfiguredSettings
    /\ created = NoHandlers
    /\ deviceID = <<>>
    /\ tenantID = <<>>
    /\ payloadFilters = <<>>
    /\ topicFilter = NilRegexp
    /\ shadows = EmptyMap
    /\ call = Idle
    /\ router = <<>>
    /\ pc = "CompileFilters"
    /\ access = NoAccess
    /\ life = NotStarted

\* main: settings.CompileFilters(), log.Fatal on an error
MainCompileFilters ==
    /\ pc = "CompileFilters"
    /\ LET r == CompileFilters(settings)
       IN  /\ settings' = r.settings
           /\ pc' = IF r.err # NoErr THEN "fatal" ELSE "CreateHandlers"
    /\ UNCHANGED <<deviceID, tenantID, payloadFilters, topicFilter, shadows, call, router,
                   created, access, life>>

\* main: the lists of device handlers and of cloud handlers
MainCreateHandlers ==
    /\ pc = "CreateHandlers"
    /\ created' = MainHandlers
    /\ pc' = "MainLoop"
    /\ UNCHANGED <<deviceID, tenantID, payloadFilters, topicFilter, shadows, call, router,
                   settings, access, life>>

\* MainLoop up to the wait for a signal: the local connection fails (MainLoop returns the
\* error), startRouter fails to create a connection (no router), or the router is started
MainStartRouter ==
    /\ pc = "MainLoop"
    /\ \/ /\ pc' = "exit"
          /\ UNCHANGED <<deviceID, tenantID, payloadFilters, topicFilter, router, life>>
       \/ /\ pc' = "noRouter"
          /\ UNCHANGED <<deviceID, tenantID, payloadFilters, topicFilter, router, life>>
       \/ /\ pc' = "running"
          /\ router' = startRouter(settings, created)
          /\ InitFields(created.device \o created.cloud, settings)
          /\ life' = Started
    /\ UNCHANGED <<shadows, call, settings, created, access>>

RECURSIVE SplitOnAcc(_, _, _, _)
SplitOnAcc(s, sep, cur, acc) ==
    IF s = <<>> THEN Append(acc, cur)
    ELSE IF Head(s) = sep THEN SplitOnAcc(Tail(s), sep, <<>>, Append(acc, cur))
    ELSE SplitOnAcc(Tail(s), sep, Append(cur, Head(s)), acc)
\* strings.Split(s, sep) for a separator of one character
SplitOn(s, sep) == SplitOnAcc(s, sep, <<>>, <<>>)

RECURSIVE LevelsMatch(_, _)
\* a topic filter of MQTT (levels, + for one level, # for the rest) matches a topic
LevelsMatch(f, t) ==
    IF f = <<>> THEN t = <<>>
    ELSE IF Head(f) = <<"#">> THEN TRUE
    ELSE IF t = <<>> THEN FALSE
    ELSE (Head(f) = <<"+">> \/ Head(f) = Head(t)) /\ LevelsMatch(Tail(f), Tail(t))
\* one of the comma separated topic filters of a handler matches the topic
Subscribed(topics, topic) ==
    \E i \in 1..Len(SplitOn(topics, ",")) :
        LevelsMatch(SplitOn(SplitOn(topics, ",")[i], "/"), SplitOn(topic, "/"))

\* the handlers of the router that get a message AWS publishes on the topic
AwsSubscribers(topic) ==
    {j \in 1..Len(router) : router[j].sub = awsSub /\ Subscribed(router[j].topics, topic)}

\* AWS accepts an update or a delete of a shadow of the device and publishes the notification
AwsPublish ==
    /\ Running
    /\ call = Idle
    /\ \E message \in {n \in Notifications(settings.DeviceID) : n.hasTopic} :
        call' = [handler |-> "aws", msg |-> message, before |-> shadows]
    /\ UNCHANGED <<deviceID, tenantID, payloadFilters, topicFilter, shadows, mainVars, access>>

\* the notification goes to the shadow state handler when the router has subscribed it on
\* the topic; a notification nobody has subscribed to is not delivered
AwsDeliver ==
    /\ Running
    /\ call # Idle
    /\ call.handler = "aws"
    /\ IF \E j \in AwsSubscribers(call.msg.topic) : router[j].handler = ShadowStateHandler
       THEN LET r == shadowStateHandler_HandleMessage(settings.DeviceID, shadows, call.msg)
            IN  /\ shadows' = r.shadows
                /\ call' = [handler |-> "state", msg |-> call.msg, messages |-> r.messages,
                            err |-> r.err, before |-> shadows]
       ELSE /\ call' = Idle
            /\ UNCHANGED shadows
    /\ UNCHANGED <<deviceID, tenantID, payloadFilters, topicFilter, mainVars, access>>

\* the shadow IDs a caller of GetCurrentShadowState asks for
LookupIDs == {deviceID} \cup ShadowNames

\* shadowStateHandler.HandleMessage, in the goroutine of its router handler, reaches
\* delete(shadows, shadowID) or shadows[shadowID] = reported; nothing is acquired before
MirrorWriteBegin ==
    /\ Running /\ Registered(stateHandlerName)
    /\ ~access.write.active
    /\ \E message \in Notifications(deviceID) :
        /\ message.hasTopic
        /\ shadowStateHandler_HandleMessage(deviceID, shadows, message).err = NoErr
        /\ access' = [access EXCEPT !.write = [active |-> TRUE, msg |-> message]]
    /\ UNCHANGED <<deviceID, tenantID, payloadFilters, topicFilter, shadows, call, mainVars>>

\* the write of the map is done and HandleMessage returns
MirrorWriteEnd ==
    /\ access.write.active
    /\ shadows' = shadowStateHandler_HandleMessage(deviceID, shadows, access.write.msg).shadows
    /\ access' = [access EXCEPT !.write = [active |-> FALSE]]
    /\ UNCHANGED <<deviceID, tenantID, payloadFilters, topicFilter, call, mainVars>>

\* GetCurrentShadowState(shadowID), called in another goroutine, reaches shadows[shadowID];
\* nothing is acquired before
LookupBegin ==
    /\ Running
    /\ ~access.read.active
    /\ \E id \in LookupIDs : access' = [access EXCEPT !.read = [active |-> TRUE, id |-> id]]
    /\ UNCHANGED <<deviceID, tenantID, payloadFilters, topicFilter, shadows, call, mainVars>>

\* the read of the map is done: with no write in progress the value of the map; during a
\* write (a data race on a Go map) the value before the write, the value after it, or the
\* runtime stops the program ("concurrent map read and map write")
LookupEnd ==
    /\ access.read.active
    /\ LET written == shadowStateHandler_HandleMessage(deviceID, shadows,
                                                       access.write.msg).shadows
           after == IF access.read.id \in DOMAIN written THEN written[access.read.id]
                    ELSE JNull
       IN  \E value \in {GetCurrentShadowState(access.read.id)}
                        \cup (IF access.write.active THEN {after, [t |-> "fatal"]} ELSE {}) :
                access' = [access EXCEPT !.read = [active |-> FALSE, id |-> access.read.id,
                                                    value |-> value]]
    /\ UNCHANGED <<deviceID, tenantID, payloadFilters, topicFilter, shadows, call, mainVars>>

\* the twin commands of the tests of the merge with the current shadow state, a command
\* for another device and a live message
CoreEnvelopes ==
    {[Topic |-> t, Path |-> pv[1], Value |-> pv[2], Status |-> 0] :
        t \in {x \in TwinCommandTopics :
                  /\ x.Namespace = s_t
                  /\ x.Action \in {ActionModify, ActionMerge, ActionDelete}}
              \cup {x \in OtherTopics : x.Group = GroupThings /\ x.Channel # ChannelTwin},
        pv \in {<<s_slash \o valueFeaturesTag \o s_slash \o k_f,
                  Obj1(valuePropertiesTag, Obj1(k_p, JNum(1)))>>,
                <<s_slash \o valueFeaturesTag \o s_slash \o k_f \o s_slash
                      \o valuePropertiesTag \o s_slash \o k_p, JNum(200)>>,
                <<s_slash \o valueAttributesTag, Obj1(k_p, JNum(1))>>,
                <<s_slash \o valueAttributesTag \o s_slash \o k_p, JNum(200)>>,
                <<s_slash \o valueAttributesTag, JNull>>}}

CoreDeviceMessages ==
    {[topic |-> <<"e">>, payload |-> TextPayload]}
    \cup {[topic |-> <<"e">>, payload |-> [kind |-> "envelope", env |-> env]] :
            env \in CoreEnvelopes}

StateHandleMessage == StateHandle(Notifications(deviceID))
DeviceHandleMessage == DeviceHandle(CoreDeviceMessages)
DeviceHandleAnyMessage == DeviceHandle(DeviceMessages)

\* the connector with both handlers
Next == StateHandleMessage \/ DeviceHandleMessage \/ CommandHandle \/ RouterAck

Spec == Init /\ [][Next]_vars

\* the device handler alone, with every message of the model
NextDevice == DeviceHandleAnyMessage \/ RouterAck

SpecDevice == InitFilters /\ [][NextDevice]_vars

\* the device handler with redeliveries
NextRepeat == DeviceHandleAnyMessage \/ DeviceHandleAgain \/ RouterAck

SpecRepeat == InitFilters /\ [][NextRepeat]_vars

\* the message bus alone
NextBus == MessageBusCall

SpecBus == InitBus /\ [][NextBus]_vars

\* the goroutine of startRouter calls router.Run: the router starts its handlers, closes
\* the channel Running() and Run blocks until the router is closed; or Run returns an error
\* with the router not running (Running() stays open), the error is logged, the goroutine
\* ends and the deferred cancel() runs
RouterRun ==
    /\ life.run = "start"
    /\ \/ life' = [life EXCEPT !.run = "Run", !.running = TRUE]
       \/ life' = [life EXCEPT !.run = "returned", !.cancelled = TRUE]
    /\ UNCHANGED <<deviceID, tenantID, payloadFilters, topicFilter, shadows, call, settings,
                   router, pc, created, access>>

\* the router has been closed: router.Run returns and the deferred cancel() runs
RouterRunReturns ==
    /\ life.run = "Run" /\ life.closed
    /\ life' = [life EXCEPT !.run = "returned", !.cancelled = TRUE]
    /\ UNCHANGED <<deviceID, tenantID, payloadFilters, topicFilter, shadows, call, settings,
                   router, pc, created, access>>

\* the lifecycle goroutine after <-router.Running(): it adds the connection listeners and
\* calls HonoConnect; on an error it closes the router and returns, which runs the deferred
\* function; otherwise it waits for <-ctx.Done()
LifecycleConnect ==
    /\ life.lifecycle = "waitRunning" /\ life.running
    /\ \/ life' = [life EXCEPT !.lifecycle = "waitCtx", !.connected = "ok"]
       \/ life' = [life EXCEPT !.lifecycle = "deferred", !.connected = "failed",
                               !.closed = TRUE]
    /\ UNCHANGED <<deviceID, tenantID, payloadFilters, topicFilter, shadows, call, settings,
                   router, pc, created, access>>

\* the context is cancelled: the lifecycle goroutine removes the listeners and calls
\* cloudClient.Disconnect(), the last statement of the function
LifecycleCloudDisconnect ==
    /\ life.lifecycle = "waitCtx" /\ life.cancelled
    /\ life' = [life EXCEPT !.lifecycle = "return", !.cloudDisconnected = TRUE]
    /\ UNCHANGED <<deviceID, tenantID, payloadFilters, topicFilter, shadows, call, settings,
                   router, pc, created, access>>

\* the functions deferred last run first: awsClient.Disconnect(), then the status message
LifecycleAwsDisconnect ==
    /\ life.lifecycle = "return"
    /\ life' = [life EXCEPT !.lifecycle = "deferred", !.awsDisconnected = TRUE]
    /\ UNCHANGED <<deviceID, tenantID, payloadFilters, topicFilter, shadows, call, settings,
                   router, pc, created, access>>

\* the function deferred first: the status ConnectionClosed, reqCache.Close(), cleanup()
LifecycleCloseCache ==
    /\ life.lifecycle = "deferred"
    /\ life' = [life EXCEPT !.lifecycle = "done", !.cacheClosed = TRUE]
    /\ UNCHANGED <<deviceID, tenantID, payloadFilters, topicFilter, shadows, call, settings,
                   router, pc, created, access>>

\* done <- true, the last statement of the function deferred first; the send blocks while
\* the channel holds DoneCapacity values
LifecycleDone ==
    /\ life.lifecycle = "done" /\ life.done < DoneCapacity
    /\ life' = [life EXCEPT !.lifecycle = "finished", !.done = @ + 1, !.sent = @ + 1]
    /\ UNCHANGED <<deviceID, tenantID, payloadFilters, topicFilter, shadows, call, settings,
                   router, pc, created, access>>

\* MainLoop receives a signal and calls stopRouter: with a router, router.Close() and then
\* the wait for `done`; with no router stopRouter returns at once and MainLoop returns
MainSignal ==
    /\ \/ /\ pc = "running"
          /\ pc' = "waitDone"
          /\ life' = [life EXCEPT !.closed = TRUE]
       \/ /\ pc = "noRouter"
          /\ pc' = "returned"
          /\ UNCHANGED life
    /\ UNCHANGED <<deviceID, tenantID, payloadFilters, topicFilter, shadows, call, settings,
                   router, created, access>>

\* <-done in stopRouter receives the value; stopRouter and MainLoop return
MainDone ==
    /\ pc = "waitDone" /\ life.done > 0
    /\ pc' = "returned"
    /\ life' = [life EXCEPT !.done = @ - 1]
    /\ UNCHANGED <<deviceID, tenantID, payloadFilters, topicFilter, shadows, call, settings,
                   router, created, access>>

\* the connector from the start of main
NextMain ==
    \/ MainCompileFilters
    \/ MainCreateHandlers
    \/ MainStartRouter
    \/ RouterRun
    \/ DeviceHandleMessage
    \/ CommandHandle
    \/ AwsPublish
    \/ AwsDeliver
    \/ RouterAck

SpecMain == InitMain /\ [][NextMain]_vars

\* the accesses to the map of the state handler, step by step
NextMirror == MirrorWriteBegin \/ MirrorWriteEnd \/ LookupBegin \/ LookupEnd

SpecMirror == Init /\ [][NextMirror]_vars

\* CompileFilters is called on the settings, which may have been compiled before
CompileFiltersCall ==
    /\ pc = "CompileFilters"
    /\ call = Idle \/ (call.handler = "compile" /\ call.calls < MaxCalls)
    /\ LET r == CompileFilters(settings)
       IN  /\ settings' = r.settings
           /\ call' = [handler |-> "compile", err |-> r.err,
                       calls |-> IF call = Idle THEN 1 ELSE call.calls + 1]
    /\ UNCHANGED <<deviceID, tenantID, payloadFilters, topicFilter, shadows, router, pc,
                   created, access, life>>

\* CompileFilters alone, on every configuration of the model
NextCompile == CompileFiltersCall

SpecCompile == InitMain /\ [][NextCompile]_vars

\* the connector from the start of main to the return of MainLoop
NextShutdown ==
    \/ MainCompileFilters
    \/ MainCreateHandlers
    \/ MainStartRouter
    \/ RouterRun
    \/ RouterRunReturns
    \/ LifecycleConnect
    \/ LifecycleCloudDisconnect
    \/ LifecycleAwsDisconnect
    \/ LifecycleCloseCache
    \/ LifecycleDone
    \/ MainSignal
    \/ MainDone

SpecShutdown == InitMain /\ [][NextShutdown]_vars

\* a goroutine that can take its next step takes it; the signal itself may never come
GoroutinesRun ==
    /\ WF_vars(RouterRun)
    /\ WF_vars(RouterRunReturns)
    /\ WF_vars(LifecycleConnect)
    /\ WF_vars(LifecycleCloudDisconnect)
    /\ WF_vars(LifecycleAwsDisconnect)
    /\ WF_vars(LifecycleCloseCache)
    /\ WF_vars(LifecycleDone)
    /\ WF_vars(MainDone)

SpecShutdownFair == SpecShutdown /\ GoroutinesRun

-----------------------------------------------------------------------------
(* Properties of the shadow state handler. *)

StateCall == call.handler = "state"
\* the shadow a notification is about: the device itself, or the named shadow
NotifiedShadow == IF call.msg.named THEN call.msg.name ELSE deviceID
\* the notification carries a JSON object with a state object that has the key reported
HasReported(payload) ==
    /\ payload.kind = "json"
    /\ HasKey(payload.v, valueStateTag)
    /\ HasKey(payload.v.m[valueStateTag], valueReportedTag)
ReportedOf(payload) == payload.v.m[valueStateTag].m[valueReportedTag]

\* C1 as stated: after an update accepted notification whose payload contains
\* state.reported the lookup of the shadow returns exactly that subtree, and after a
\* delete accepted notification with any payload it returns nil and the handler returns
\* no error and no messages.
C1_AnyReported ==
    StateCall /\ call.msg.hasTopic =>
        /\ (call.msg.op = "update" /\ HasReported(call.msg.payload)) =>
                GetCurrentShadowState(NotifiedShadow) = ReportedOf(call.msg.payload)
        /\ call.msg.op = "delete" =>
                /\ GetCurrentShadowState(NotifiedShadow) = JNull
                /\ call.err = NoErr
                /\ call.messages = NilMessages

\* C1 amended: after an update accepted notification whose payload contains a state.reported
\* that is not null the lookup of the shadow returns exactly that subtree, replacing any
\* prior value; after a delete accepted notification with any payload it returns nil and
\* the handler returns no error and no messages.
C1_Mirror ==
    StateCall /\ call.msg.hasTopic =>
        /\ (/\ call.msg.op = "update"
            /\ HasReported(call.msg.payload)
            /\ ReportedOf(call.msg.payload) # JNull) =>
                /\ GetCurrentShadowState(NotifiedShadow) = ReportedOf(call.msg.payload)
                /\ call.err = NoErr
                /\ call.messages = NilMessages
        /\ call.msg.op = "delete" =>
                /\ GetCurrentShadowState(NotifiedShadow) = JNull
                /\ call.err = NoErr
                /\ call.messages = NilMessages

\* an update replaced another value of the shadow
C1_Witness ==
    /\ StateCall
    /\ call.msg.hasTopic
    /\ call.msg.op = "update"
    /\ HasReported(call.msg.payload)
    /\ NotifiedShadow \in DOMAIN call.before
    /\ call.before[NotifiedShadow] # ReportedOf(call.msg.payload)
    /\ shadows[NotifiedShadow] = ReportedOf(call.msg.payload)

\* C2: whenever the state handler returns an error (no topic in the context, a payload
\* that is not JSON, a payload without state.reported) it returns the nil message list
\* and every entry of the mirror is as it was before the call.
C2_ErrorKeepsMirror ==
    StateCall /\ call.err # NoErr =>
        /\ call.messages = NilMessages
        /\ shadows = call.before
        /\ \/ ~call.msg.hasTopic
           \/ call.msg.op = "update" /\ call.msg.payload.kind # "json"
           \/ /\ call.msg.op = "update"
              /\ ~(HasReported(call.msg.payload) /\ ReportedOf(call.msg.payload) # JNull)

\* an update without reported state failed while the mirror had entries
C2_Witness ==
    /\ StateCall
    /\ call.err = "Invalid Payload structure"
    /\ NotifiedShadow \in DOMAIN call.before
    /\ Cardinality(DOMAIN shadows) >= 2

\* C3: the key of the mirror is the device ID for a topic without "/name/" and the
\* shadow name (the 6th segment of the topic) otherwise, for update and delete topics
\* alike: an update writes and a delete removes the entry of the shadow the topic names,
\* and no other entry changes.
C3_ShadowID ==
    StateCall /\ call.msg.hasTopic =>
        /\ call.msg.named = Contains(call.msg.topic, s_slash \o s_name \o s_slash)
        /\ call.msg.named => Split(call.msg.topic)[6] = call.msg.name
        /\ getShadowID(deviceID, call.msg.topic) = NotifiedShadow
        /\ \A id \in (DOMAIN shadows \cup DOMAIN call.before) \ {NotifiedShadow} :
                /\ id \in DOMAIN shadows
                /\ id \in DOMAIN call.before
                /\ shadows[id] = call.before[id]
        /\ call.msg.op = "delete" => NotifiedShadow \notin DOMAIN shadows
        /\ (call.msg.op = "update" /\ call.err = NoErr) => NotifiedShadow \in DOMAIN shadows

\* a delete removed the entry an update on the same named shadow had written
C3_Witness ==
    /\ StateCall
    /\ call.msg.op = "delete"
    /\ call.msg.named
    /\ NotifiedShadow \in DOMAIN call.before
    /\ NotifiedShadow \notin DOMAIN shadows
    /\ deviceID \in DOMAIN shadows

-----------------------------------------------------------------------------
(* Properties of the device handler. *)

DeviceCall == call.handler = "device"
EnvelopeCall == DeviceCall /\ call.msg.payload.kind = "envelope"
Env == call.msg.payload.env
Emitted == call.messages.list
s_update == s_slash \o topicUpdate
s_delete == s_slash \o topicDelete

\* a twin command (create, modify, merge or delete) for the device or one of its children
TwinShadowEnvelope(env) ==
    /\ env.Status = 0
    /\ env.Topic.Group = s_things
    /\ env.Topic.Channel = <<"t", "w", "i", "n">>
    /\ env.Topic.Criterion = <<"c", "o", "m", "m", "a", "n", "d", "s">>
    /\ env.Topic.Action \in {<<"c", "r", "e", "a", "t", "e">>, <<"m", "o", "d", "i", "f", "y">>,
                             <<"m", "e", "r", "g", "e">>, <<"d", "e", "l", "e", "t", "e">>}
    /\ LET T == env.Topic.Namespace \o s_colon \o env.Topic.EntityName
       IN  \/ T = deviceID
           \/ /\ Len(T) > Len(deviceID)
              /\ \A i \in 1..Len(deviceID) : T[i] = deviceID[i]
              /\ T[Len(deviceID) + 1] = ":"

TopicFilterMatches(env) ==
    topicFilter # NilRegexp /\ MatchString(topicFilter, TopicString(env.Topic))

\* the envelope is turned into shadow messages
Transformed == EnvelopeCall /\ TwinShadowEnvelope(Env) /\ ~TopicFilterMatches(Env)

\* the value of the envelope with its path applied
Reconstructed == integrate(Split(Env.Path), Env.Value)

RECURSIVE FeatureScopes(_, _, _)
FeatureScopes(features, order, i) ==
    IF i > Len(order) THEN <<>>
    ELSE LET feature == features[order[i]]
             properties == getFeatureProperties(feature)
         IN  (IF feature = JNull THEN <<[feature |-> order[i], value |-> JNull]>>
              ELSE IF properties.ok
                   THEN <<[feature |-> order[i], value |-> properties.value]>>
                   ELSE <<>>)
             \o FeatureScopes(features, order, i + 1)

\* the shadows the envelope has a value for, in the order of the call: the attributes
\* (feature <<>>) and the features, each with its value
Scopes ==
    LET value == filteredValue(payloadFilters, Env)
        attributes == search(valueAttributesTag, value)
    IN  IF value = JNull THEN <<>>
        ELSE (IF attributes.called THEN <<[feature |-> <<>>, value |-> attributes.arg]>>
              ELSE <<>>)
             \o FeatureScopes(featuresOf(payloadFilters, Env), call.order, 1)

\* the topic of the templates for a shadow of the thing of the envelope
TemplateTopic(feature, target) ==
    LET T == ThingID(Env.Topic)
        C == SubSeq(T, Len(deviceID) + 2, Len(T))
    IN  IF T = deviceID
        THEN IF feature = <<>>
             THEN s_aws \o s_slash \o s_things \o s_slash \o deviceID \o s_slash \o s_shadow
                      \o s_slash \o target
             ELSE s_aws \o s_slash \o s_things \o s_slash \o deviceID \o s_slash \o s_shadow
                      \o s_slash \o s_name \o s_slash \o feature \o s_slash \o target
        ELSE IF feature = <<>>
             THEN s_aws \o s_slash \o s_things \o s_slash \o deviceID \o s_slash \o s_shadow
                      \o s_slash \o s_name \o s_slash \o C \o s_slash \o target
             ELSE s_aws \o s_slash \o s_things \o s_slash \o deviceID \o s_slash \o s_shadow
                      \o s_slash \o s_name \o s_slash \o C \o s_colon \o feature
                      \o s_slash \o target

\* C4: every message emitted for a twin shadow envelope has the topic of the template
\* chosen by (root or child) x (attributes or feature): the root templates exactly when
\* the thing ID equals the device ID, else the child templates with the suffix of the
\* thing ID after the device ID and ":"; the slice of the thing ID is never out of range.
C4_TemplateTopics ==
    Transformed =>
        /\ ~call.panicked
        /\ Len(Emitted) = Len(Scopes)
        /\ LET T == ThingID(Env.Topic)
           IN  T # deviceID =>
                   T = deviceID \o s_colon \o SubSeq(T, Len(deviceID) + 2, Len(T))
        /\ \A i \in 1..Len(Emitted) :
               \E target \in {topicUpdate, topicDelete} :
                   Emitted[i].topic = TemplateTopic(Scopes[i].feature, target)

\* a child thing with attributes and a feature: both child templates are used
C4_Witness ==
    /\ Transformed
    /\ ThingID(Env.Topic) # deviceID
    /\ Len(Emitted) >= 2
    /\ Scopes[1].feature = <<>>
    /\ Scopes[2].feature # <<>>
    /\ Emitted[2].topic = TemplateTopic(Scopes[2].feature, topicUpdate)

\* C5: the payload of every message emitted on an /update topic is a JSON object with
\* the one key state whose value is an object with the one key reported; the payload of
\* every message emitted on a /delete topic is empty.
C5_PayloadShape ==
    DeviceCall =>
        \A i \in 1..Len(Emitted) :
            /\ HasSuffix(Emitted[i].topic, s_update) =>
                   /\ Emitted[i].payload.kind = "json"
                   /\ IsMap(Emitted[i].payload.v)
                   /\ DOMAIN Emitted[i].payload.v.m = {valueStateTag}
                   /\ IsMap(Emitted[i].payload.v.m[valueStateTag])
                   /\ DOMAIN Emitted[i].payload.v.m[valueStateTag].m = {valueReportedTag}
            /\ HasSuffix(Emitted[i].topic, s_delete) => Emitted[i].payload = EmptyPayload

\* one call emitted an update and a delete
C5_Witness ==
    /\ Transformed
    /\ \E i \in 1..Len(Emitted) : HasSuffix(Emitted[i].topic, s_update)
    /\ \E i \in 1..Len(Emitted) : HasSuffix(Emitted[i].topic, s_delete)

\* C6: a message goes to /delete with an empty payload if and only if the action is
\* delete and the value of its shadow is no map or an empty map; in every other case,
\* a null value under another action included, it goes to /update and carries the value
\* under state.reported.
C6_DeleteOrUpdate ==
    Transformed =>
        /\ Len(Emitted) = Len(Scopes)
        /\ \A i \in 1..Len(Emitted) :
               LET v == Scopes[i].value
                   entire == \/ v.t # "obj"
                             \/ v.t = "obj" /\ Cardinality(DOMAIN v.m) = 0
               IN  IF Env.Topic.Action = <<"d", "e", "l", "e", "t", "e">> /\ entire
                   THEN /\ HasSuffix(Emitted[i].topic, s_delete)
                        /\ Emitted[i].payload = EmptyPayload
                   ELSE /\ HasSuffix(Emitted[i].topic, s_update)
                        /\ Emitted[i].payload =
                               JsonPayload(Obj1(valueStateTag, Obj1(valueReportedTag, v)))

\* a null feature under modify is sent as an update with reported null
C6_Witness ==
    /\ Transformed
    /\ Env.Topic.Action = ActionModify
    /\ \E i \in 1..Len(Emitted) :
           /\ Scopes[i].value = JNull
           /\ HasSuffix(Emitted[i].topic, s_update)
           /\ Emitted[i].payload = JsonPayload(Obj1(valueStateTag, Obj1(valueReportedTag, JNull)))

RECURSIVE LeafPaths(_, _)
\* the paths of the leaves (values that are no object and no array) of a value
LeafPaths(path, v) ==
    IF v.t = "obj" THEN UNION {LeafPaths(path \o s_slash \o k, v.m[k]) : k \in DOMAIN v.m}
    ELSE IF v.t = "arr"
         THEN UNION {LeafPaths(path \o s_slash \o Itoa(i - 1), v.a[i]) : i \in 1..Len(v.a)}
         ELSE {path}

AllLeavesMatch ==
    \A path \in LeafPaths(<<>>, Reconstructed) :
        \E i \in 1..Len(payloadFilters) : MatchString(payloadFilters[i], path)

MirrorKey(topic) == getShadowID(deviceID, topic \o s_slash \o s_accepted)

RECURSIVE Tombstoned(_, _, _)
\* merged has every key of prev that next lacks with the value null and every key of
\* next with the value of next, nested objects alike
Tombstoned(prev, next, merged) ==
    IF IsMap(prev) /\ IsMap(next)
    THEN /\ IsMap(merged)
         /\ \A k \in DOMAIN prev.m \ DOMAIN next.m :
                k \in DOMAIN merged.m /\ merged.m[k] = JNull
         /\ \A k \in DOMAIN next.m :
                /\ k \in DOMAIN merged.m
                /\ IF k \in DOMAIN prev.m
                   THEN Tombstoned(prev.m[k], next.m[k], merged.m[k])
                   ELSE merged.m[k] = next.m[k]
    ELSE merged = next

\* the path of the envelope names a whole shadow: /attributes or /features/<feature>
WholeShadowPath ==
    LET segments == SelectSeq(Split(Env.Path), LAMBDA x : Len(x) > 0)
    IN  \/ segments = <<valueAttributesTag>>
        \/ Len(segments) = 2 /\ segments[1] = valueFeaturesTag

\* C10: the reported object of an emitted update has every key of the state the mirror
\* holds for the shadow that the incoming value lacks with the value null, and every key
\* of the incoming value with its value, nested objects alike (stated for the commands of
\* the tests of the claim: a modify of a whole shadow).
C10_MergeAgainstMirror ==
    Transformed /\ Env.Topic.Action = ActionModify /\ WholeShadowPath =>
        \A i \in 1..Len(Emitted) :
            (/\ HasSuffix(Emitted[i].topic, s_update)
             /\ MirrorKey(Emitted[i].topic) \in DOMAIN shadows) =>
                Tombstoned(shadows[MirrorKey(Emitted[i].topic)], Scopes[i].value,
                           Emitted[i].payload.v.m[valueStateTag].m[valueReportedTag])

-----------------------------------------------------------------------------
(* Properties of a repeated call of the device handler. *)

AgainCall == call.handler = "again"
\* how many times a message is in a sequence of messages
Count(list, m) == Cardinality({i \in 1..Len(list) : list[i] = m})
SameBag(a, b) ==
    /\ Len(a) = Len(b)
    /\ \A i \in 1..Len(a) : Count(a, a[i]) = Count(b, a[i])

\* C11 as stated: the second call on the same message, with the shadows and the filters
\* unchanged, returns the same messages in the same sequence.
C11_SameSequence ==
    AgainCall =>
        /\ call.messages = call.first.messages
        /\ call.err = call.first.err

\* C11: the second call on the same message, with the shadows and the filters unchanged,
\* returns the same messages, each as many times as the first call did (the messages of the
\* features possibly in another order), and the same sequence when the range statement
\* visits the features in the same order.
C11_SameMessages ==
    AgainCall =>
        /\ call.err = call.first.err
        /\ call.panicked = call.first.panicked
        /\ call.messages.isNil = call.first.messages.isNil
        /\ SameBag(call.messages.list, call.first.messages.list)
        /\ call.order = call.first.order => call.messages = call.first.messages

\* a second call that visited two features in the other order and returned two messages
C11_Witness ==
    /\ AgainCall
    /\ call.msg.payload.kind = "envelope"
    /\ TwinShadowEnvelope(call.msg.payload.env)
    /\ Len(call.order) = 2
    /\ call.order # call.first.order
    /\ Len(call.messages.list) >= 2
    /\ call.messages # call.first.messages

-----------------------------------------------------------------------------
(* Properties of the commands request bus. *)

CommandCall == call.handler = "command"
\* the payload is an envelope for the device or for a thing below it
ForDevice(msg) ==
    /\ msg.payload.kind = "envelope"
    /\ LET T == msg.payload.env.Topic.Namespace \o s_colon \o msg.payload.env.Topic.EntityName
       IN  \/ T = deviceID
           \/ /\ Len(T) > Len(deviceID)
              /\ SubSeq(T, 1, Len(deviceID) + 1) = deviceID \o s_colon

-----------------------------------------------------------------------------
(* Properties of the message bus. *)

Wired == pc = "wired"
\* Init returns no error and Topics() is not empty
Survives(h) == handler_Init(h, settings) = NoErr /\ Len(handler_Topics(h, settings)) # 0
RegisteredAt(h) == {j \in 1..Len(router) : router[j].name = handler_Name(h)}

\* C13: after MessageBus a handler of the list is registered exactly when its Init gave no
\* error and its Topics() is not empty, whatever was skipped before it; the registered
\* handlers are in the order of the list, each once, subscribed on its own topics with the
\* subscriber of the bus and publishing to the empty topic with the publisher of the bus.
C13_MessageBus ==
    Wired =>
        LET hs == created.device
        IN  /\ \A i \in 1..Len(hs) : Survives(hs[i]) <=> RegisteredAt(hs[i]) # {}
            /\ Len(router) = Cardinality({i \in 1..Len(hs) : Survives(hs[i])})
            /\ \A i, k \in 1..Len(hs) :
                    i < k /\ Survives(hs[i]) /\ Survives(hs[k]) =>
                        \E j, l \in 1..Len(router) :
                            /\ j < l
                            /\ router[j].handler = hs[i]
                            /\ router[l].handler = hs[k]
            /\ \A j \in 1..Len(router) :
                    /\ router[j].name = handler_Name(router[j].handler)
                    /\ router[j].topics = handler_Topics(router[j].handler, settings)
                    /\ router[j].topic = <<>>
                    /\ router[j].sub = mosquittoSub
                    /\ router[j].pub = awsPub

\* a handler whose Init failed and a handler without topics were skipped and the handler
\* after them was registered
C13_Witness ==
    /\ Wired
    /\ Len(created.device) = 3
    /\ handler_Init(created.device[1], settings) # NoErr
    /\ handler_Init(created.device[2], settings) = NoErr
    /\ handler_Topics(created.device[2], settings) = <<>>
    /\ Len(router) = 1
    /\ router[1].handler = created.device[3]

-----------------------------------------------------------------------------
(* Properties of the start of the connector. *)

\* the only text of the configurations that is not a regular expression
NotRegexp(text) == text = <<"[">>
SomeFilterInvalid ==
    \/ settings.TopicFilter # <<>> /\ NotRegexp(settings.TopicFilter)
    \/ \E i \in 1..Len(settings.PayloadFilters) : NotRegexp(settings.PayloadFilters[i])

\* C14: CompileFilters has returned an error (main is at log.Fatal) exactly when the topic
\* filter is not empty and not a regular expression or some payload filter is not a regular
\* expression; after a call without error an empty topic filter has left no topic matcher;
\* after an error main goes no further: no handler is created and none is registered.
C14_CompileFilters ==
    pc # "CompileFilters" =>
        /\ pc = "fatal" <=> SomeFilterInvalid
        /\ pc # "fatal" /\ settings.TopicFilter = <<>> =>
                settings.TopicFilterRegexp = [kind |-> "nil", s |-> <<>>]
        /\ pc = "fatal" =>
            /\ created = [device |-> <<>>, cloud |-> <<>>]
            /\ router = <<>>
            /\ ~ENABLED NextMain

\* main stopped on a configuration whose topic filter and first payload filter are regular
\* expressions and whose second payload filter is not
C14_Witness ==
    /\ pc = "fatal"
    /\ settings.TopicFilter # <<>>
    /\ ~NotRegexp(settings.TopicFilter)
    /\ Len(settings.PayloadFilters) = 2
    /\ ~NotRegexp(settings.PayloadFilters[1])
    /\ NotRegexp(settings.PayloadFilters[2])

-----------------------------------------------------------------------------
(* Properties of the classification of envelopes. *)

\* the handler has turned the envelope into shadow messages (possibly none) instead of
\* handing the message to the passthrough handler
TreatedAsShadowMessage ==
    /\ ~call.messages.isNil
    /\ \A i \in 1..Len(Emitted) :
            /\ SubSeq(Emitted[i].topic, 1, 12) = <<"$", "a", "w", "s", "/", "t", "h", "i", "n", "g", "s", "/">>
            /\ Emitted[i].payload.kind # "timestamped"

\* C15: an envelope is treated as a twin shadow message exactly when its status is zero,
\* its group things, its channel twin, its criterion commands, its action create, modify,
\* merge or delete, and its thing the device or a thing below it (the device ID followed by
\* a colon); any other envelope goes to the passthrough handler.
C15_Classification ==
    EnvelopeCall =>
        /\ TwinShadowEnvelope(Env) <=> TreatedAsShadowMessage
        /\ ~TwinShadowEnvelope(Env) =>
                call.messages = defaultHandler(tenantID, deviceID, call.msg).messages

\* a twin modify command for a thing whose identity starts with the device ID but is not
\* below it has gone to the passthrough handler
C15_Witness ==
    /\ EnvelopeCall
    /\ Env.Status = 0
    /\ Env.Topic.Channel = ChannelTwin
    /\ Env.Topic.Criterion = CriterionCommands
    /\ Env.Topic.Action = ActionModify
    /\ ThingID(Env.Topic) = deviceID \o <<"s">>
    /\ ~TreatedAsShadowMessage
    /\ Len(Emitted) = 1

-----------------------------------------------------------------------------
(* Properties of the shadows across the handlers. *)

\* C16: a step changes the shadows only when the state handler has handled a notification
\* without error; a step in which the device handler handles a message, whatever it
\* returns, leaves every entry of the shadows as it was.
C16_MirrorFrame ==
    [][/\ shadows' # shadows =>
            /\ call'.handler = "state"
            /\ call'.err = NoErr
       /\ call'.handler = "device" => shadows' = shadows]_vars

\* the device handler has returned shadow messages while the shadows held a state, and the
\* shadows are what they were before the call
C16_Witness ==
    /\ DeviceCall
    /\ Len(Emitted) > 0
    /\ DOMAIN shadows # {}
    /\ shadows = call.before

-----------------------------------------------------------------------------
(* Properties of the accesses to the shadows. *)

\* C17: a write of the map by the state handler and a read of it by GetCurrentShadowState
\* are never in progress at the same time, and a lookup never ends in a fault.
C17_NoOverlap ==
    /\ ~(access.write.active /\ access.read.active)
    /\ (~access.read.active /\ "value" \in DOMAIN access.read) =>
            access.read.value.t # "fatal"

-----------------------------------------------------------------------------
(* Properties of the subscription of the shadow state handler. *)

\* C18: in the running connector a notification AWS publishes on one of the accepted
\* topics of the device is passed to the shadow state handler, which applies it to the
\* shadows: the step that takes the notification is a call of the state handler with it.
C18_MirrorSubscribed ==
    [][call.handler = "aws" =>
            /\ call'.handler = "state"
            /\ call'.msg = call.msg
            /\ shadows' = shadowStateHandler_HandleMessage(settings.DeviceID, shadows,
                                                           call.msg).shadows]_vars

-----------------------------------------------------------------------------
(* Properties of the payload filters. *)

RECURSIVE HasKeptLeaf(_, _)
\* the value has a leaf whose path (keys and indices from the root) no payload filter matches
HasKeptLeaf(path, v) ==
    IF v.t = "obj"
    THEN \E k \in DOMAIN v.m : HasKeptLeaf(path \o s_slash \o k, v.m[k])
    ELSE IF v.t = "arr"
    THEN \E i \in 1..Len(v.a) : HasKeptLeaf(path \o s_slash \o Itoa(i - 1), v.a[i])
    ELSE \A f \in 1..Len(payloadFilters) : ~MatchString(payloadFilters[f], path)

RECURSIVE FilteredAs(_, _, _)
\* res is v without the leaves a payload filter matches and without the containers that
\* have no other leaf: the members of an object that remain keep their keys, the elements
\* of an array that remain keep their order and close the gaps
FilteredAs(path, v, res) ==
    IF v.t = "obj"
    THEN /\ res.t = "obj"
         /\ DOMAIN res.m = {k \in DOMAIN v.m : HasKeptLeaf(path \o s_slash \o k, v.m[k])}
         /\ \A k \in DOMAIN res.m : FilteredAs(path \o s_slash \o k, v.m[k], res.m[k])
    ELSE IF v.t = "arr"
    THEN LET remaining == {i \in 1..Len(v.a) :
                              HasKeptLeaf(path \o s_slash \o Itoa(i - 1), v.a[i])}
             nth(j) == CHOOSE i \in remaining : Cardinality({x \in remaining : x < i}) = j - 1
         IN  /\ res.t = "arr"
             /\ Len(res.a) = Cardinality(remaining)
             /\ \A j \in 1..Len(res.a) :
                    FilteredAs(path \o s_slash \o Itoa(nth(j) - 1), v.a[nth(j)], res.a[j])
    ELSE res = v

\* C19: with payload filters configured, the value the messages are built from is the
\* reconstructed value without the leaves whose path (object keys and original array
\* indices, each after a slash) some payload filter matches and without every container
\* that is left with no member: remaining array elements keep their order, the array gets
\* shorter; a value with no remaining leaf is dropped as a whole. Without payload filters
\* the value is the reconstructed value.
C19_FilteredLeaves ==
    Transformed =>
        LET v == Reconstructed
            res == filteredValue(payloadFilters, Env)
        IN  IF payloadFilters = <<>> THEN res = v
            ELSE IF HasKeptLeaf(<<>>, v) THEN FilteredAs(<<>>, v, res)
            ELSE res = JNull

\* the first element of an array of three objects has been removed by a filter on its only
\* leaf; the two other elements follow in their order in the message for the attributes
C19_Witness ==
    /\ Transformed
    /\ payloadFilters # <<>>
    /\ Env.Value = Obj2(k_p, JArr(<<Obj1(k_p, JNum(1)), Obj1(k_q, JNum(2)),
                                     Obj1(k_a, JNum(3))>>),
                        k_q, JNum(2))
    /\ Len(Emitted) = 1
    /\ Emitted[1].payload.v.m[valueStateTag].m[valueReportedTag] =
            Obj2(k_p, JArr(<<Obj1(k_q, JNum(2)), Obj1(k_a, JNum(3))>>), k_q, JNum(2))

-----------------------------------------------------------------------------
(* Properties of the fan-out of an envelope. *)

FilteredValue == filteredValue(payloadFilters, Env)
HasAttributes == IsMap(FilteredValue) /\ valueAttributesTag \in DOMAIN FilteredValue.m
\* the entries of the features object
FeatureEntries ==
    IF /\ IsMap(FilteredValue)
       /\ valueFeaturesTag \in DOMAIN FilteredValue.m
       /\ IsMap(FilteredValue.m[valueFeaturesTag])
    THEN FilteredValue.m[valueFeaturesTag].m
    ELSE EmptyMap
\* the feature is an object with a definition or with a properties object that has a member
HasFeatureProperties(feature) ==
    /\ IsMap(feature)
    /\ \/ valueDefinitionTag \in DOMAIN feature.m
       \/ /\ valuePropertiesTag \in DOMAIN feature.m
          /\ IsMap(feature.m[valuePropertiesTag])
          /\ DOMAIN feature.m[valuePropertiesTag].m # {}
\* the features a message is emitted for
EmittingFeatures ==
    {f \in DOMAIN FeatureEntries :
        FeatureEntries[f] = JNull \/ HasFeatureProperties(FeatureEntries[f])}
ShadowTopics(feature) == {TemplateTopic(feature, topicUpdate), TemplateTopic(feature, topicDelete)}

-----------------------------------------------------------------------------
(* Properties of a delete of an inner element. *)

PathSegments == SelectSeq(Split(Env.Path), LAMBDA x : Len(x) > 0)
\* the path names one attribute, one property of a feature or the definition of a feature
InnerElementPath ==
    \/ Len(PathSegments) = 2 /\ PathSegments[1] = valueAttributesTag
    \/ /\ Len(PathSegments) = 4
       /\ PathSegments[1] = valueFeaturesTag
       /\ PathSegments[3] = valuePropertiesTag
    \/ /\ Len(PathSegments) = 3
       /\ PathSegments[1] = valueFeaturesTag
       /\ PathSegments[3] = valueDefinitionTag
\* the feature of the shadow the path lies in (<<>> for the attributes)
InnerFeature == IF PathSegments[1] = valueAttributesTag THEN <<>> ELSE PathSegments[2]
InnerName == PathSegments[Len(PathSegments)]
SomeLeafFiltered ==
    \E path \in LeafPaths(<<>>, Reconstructed) :
        \E i \in 1..Len(payloadFilters) : MatchString(payloadFilters[i], path)

\* C21: a delete command (it has no value) whose path names one attribute, one property
\* of a feature or the definition of a feature, of the root thing or a child thing, gives
\* no message on a /delete topic; when no payload filter matches the path it gives exactly
\* one message, on the /update topic of the shadow, with the payload
\* {"state":{"reported":{<name>:null}}}.
C21_InnerDelete ==
    (/\ Transformed
     /\ Env.Topic.Action = ActionDelete
     /\ Env.Value = JNull
     /\ InnerElementPath) =>
        /\ \A i \in 1..Len(Emitted) : ~HasSuffix(Emitted[i].topic, s_delete)
        /\ ~SomeLeafFiltered =>
               Emitted = <<[topic |-> TemplateTopic(InnerFeature, topicUpdate),
                            payload |-> JsonPayload(Obj1(valueStateTag,
                                            Obj1(valueReportedTag, Obj1(InnerName, JNull))))]>>

\* the definition of a feature of a child thing is deleted, with a payload filter
\* configured that does not match the path
C21_Witness ==
    /\ Transformed
    /\ Env.Topic.Action = ActionDelete
    /\ Env.Value = JNull
    /\ InnerElementPath
    /\ InnerName = valueDefinitionTag
    /\ ThingID(Env.Topic) # deviceID
    /\ Len(payloadFilters) > 0
    /\ ~SomeLeafFiltered
    /\ Len(Emitted) = 1
    /\ HasSuffix(Emitted[1].topic, s_update)

-----------------------------------------------------------------------------
(* Properties of a merge command. *)

\* the state the shadows hold for the topic of message i has a key the value of the
\* message lacks
MirrorHasOtherKey(i) ==
    /\ MirrorKey(Emitted[i].topic) \in DOMAIN shadows
    /\ IsMap(shadows[MirrorKey(Emitted[i].topic)])
    /\ IsMap(Scopes[i].value)
    /\ DOMAIN shadows[MirrorKey(Emitted[i].topic)].m \ DOMAIN Scopes[i].value.m # {}

\* C22: whatever states the shadows hold, the messages emitted for a merge command are
\* those of its value alone: one update per shadow the value names, whose reported object
\* is the value of that shadow in the envelope, with no key of the state the shadows hold
\* for it added as null.
C22_MergeIgnoresMirror ==
    Transformed /\ Env.Topic.Action = ActionMerge =>
        /\ Len(Emitted) = Len(Scopes)
        /\ \A i \in 1..Len(Emitted) :
               /\ Emitted[i].topic = TemplateTopic(Scopes[i].feature, topicUpdate)
               /\ Emitted[i].payload =
                      JsonPayload(Obj1(valueStateTag, Obj1(valueReportedTag, Scopes[i].value)))
               /\ MirrorHasOtherKey(i) =>
                      DOMAIN Emitted[i].payload.v.m[valueStateTag].m[valueReportedTag].m
                          = DOMAIN Scopes[i].value.m

\* a merge is handled while the shadows hold, for its shadow, a state with another key
C22_Witness ==
    /\ Transformed
    /\ Env.Topic.Action = ActionMerge
    /\ Len(Emitted) = 1
    /\ Len(Scopes) = 1
    /\ MirrorHasOtherKey(1)

-----------------------------------------------------------------------------
(* Properties of a modify of one property or attribute. *)

\* the path names one attribute or one property of a feature, or a place below it
BelowShadowRoot ==
    \/ Len(PathSegments) >= 2 /\ PathSegments[1] = valueAttributesTag
    \/ /\ Len(PathSegments) >= 4
       /\ PathSegments[1] = valueFeaturesTag
       /\ PathSegments[3] = valuePropertiesTag
\* the key of the reported object the path leads through
AddressedKey == IF PathSegments[1] = valueAttributesTag THEN PathSegments[2] ELSE PathSegments[4]

RECURSIVE OnlyTombstones(_, _, _)
\* merged is next, but for keys with the value null that prev has and next lacks
OnlyTombstones(prev, next, merged) ==
    IF IsMap(next)
    THEN /\ IsMap(merged)
         /\ DOMAIN next.m \subseteq DOMAIN merged.m
         /\ \A k \in DOMAIN merged.m \ DOMAIN next.m :
                merged.m[k] = JNull /\ IsMap(prev) /\ k \in DOMAIN prev.m
         /\ \A k \in DOMAIN next.m :
                OnlyTombstones(IF IsMap(prev) /\ k \in DOMAIN prev.m THEN prev.m[k] ELSE JNull,
                               next.m[k], merged.m[k])
    ELSE merged = next

-----------------------------------------------------------------------------
(* Properties of the shadow identifiers. *)

\* the identifier of a shadow of the thing of the envelope: the device ID for the
\* attributes of the root thing, else the name of the shadow (F, C or C:F)
ShadowIdentifier(feature) ==
    LET T == ThingID(Env.Topic)
        C == SubSeq(T, Len(deviceID) + 2, Len(T))
    IN  IF T = deviceID
        THEN IF feature = <<>> THEN deviceID ELSE feature
        ELSE IF feature = <<>> THEN C ELSE C \o s_colon \o feature

\* the shadows file the accepted notification of the topic of message i under the
\* identifier of its shadow
KeysAgree(i) == MirrorKey(Emitted[i].topic) = ShadowIdentifier(Scopes[i].feature)

\* the reported object of message i has every key of the state accepted for its shadow
MergedAgainstAccepted(i) ==
    LET prev == shadows[ShadowIdentifier(Scopes[i].feature)]
        reported == Emitted[i].payload.v.m[valueStateTag].m[valueReportedTag]
    IN  (IsMap(prev) /\ IsMap(Scopes[i].value)) =>
            /\ IsMap(reported)
            /\ DOMAIN prev.m \subseteq DOMAIN reported.m

\* C24: for every update emitted on a topic X/update the shadows file the notification
\* of X/update/accepted under the identifier of the shadow (D for the attributes of the
\* root thing, else the shadow name F, C or C:F), and the state accepted for that shadow
\* is the state the update is merged against (stated for the modify of a whole shadow).
C24_KeyAgreement ==
    Transformed /\ Env.Topic.Action = ActionModify /\ WholeShadowPath =>
        /\ Len(Emitted) = Len(Scopes)
        /\ \A i \in 1..Len(Emitted) :
               HasSuffix(Emitted[i].topic, s_update) =>
                   /\ KeysAgree(i)
                   /\ ShadowIdentifier(Scopes[i].feature) \in DOMAIN shadows =>
                          MergedAgainstAccepted(i)

-----------------------------------------------------------------------------
(* Properties of the classification as the last word. *)

\* the message the pass-through handler makes of the message of the call
PassedThrough(m) ==
    \/ m.payload.kind = "timestamped"
    \/ HasPrefix(m.topic, s_event \o s_slash)
    \/ HasPrefix(m.topic, s_telemetry \o s_slash)

\* C25: for a twin shadow envelope the handler returns a list of shadow messages, which
\* may be empty, and no error, and nothing of what it returns comes from the pass-through
\* handler; this is so when the topic filter matches, when the payload filters remove the
\* whole value and when the value has neither attributes nor features.
C25_NeverPassthrough ==
    EnvelopeCall /\ TwinShadowEnvelope(Env) =>
        /\ call.err = NoErr
        /\ ~call.panicked
        /\ ~call.messages.isNil
        /\ call.messages # defaultHandler(tenantID, deviceID, call.msg).messages
        /\ \A i \in 1..Len(Emitted) :
               /\ ~PassedThrough(Emitted[i])
               /\ HasPrefix(Emitted[i].topic, s_aws \o s_slash \o s_things \o s_slash)
        /\ (\/ TopicFilterMatches(Env)
            \/ Len(payloadFilters) > 0 /\ AllLeavesMatch
            \/ ~HasKey(FilteredValue, valueAttributesTag)
                   /\ ~HasKey(FilteredValue, valueFeaturesTag)) => Emitted = <<>>

\* a twin shadow envelope that no filter touches and that has neither attributes nor
\* features gave the empty list
C25_Witness ==
    /\ EnvelopeCall
    /\ TwinShadowEnvelope(Env)
    /\ ~TopicFilterMatches(Env)
    /\ topicFilter # NilRegexp
    /\ Len(payloadFilters) > 0
    /\ ~SomeLeafFiltered
    /\ Reconstructed = FilteredValue
    /\ IsMap(Reconstructed)
    /\ ~HasKey(Reconstructed, valueAttributesTag)
    /\ ~HasKey(Reconstructed, valueFeaturesTag)
    /\ Emitted = <<>>
    /\ call.err = NoErr

-----------------------------------------------------------------------------
(* Properties of the feature properties. *)

\* the features the handler has looked at, before the call
FeaturesBefore == featuresOf(payloadFilters, Env)

\* C26: extracting the properties of a feature leaves the properties object of the feature
\* as it was: after the call every feature of the envelope has the properties it had, and
\* the key definition has not been added to them.
C26_PropertiesUnchanged ==
    Transformed =>
        \A f \in DOMAIN FeaturesBefore :
            HasKey(FeaturesBefore[f], valuePropertiesTag) =>
                call.features[f].m[valuePropertiesTag] = FeaturesBefore[f].m[valuePropertiesTag]

-----------------------------------------------------------------------------
(* Properties of a sequence of accepted notifications. *)

\* the entry of a shadow: whether there is one, and its state
Entry(sh, id) == IF id \in DOMAIN sh THEN <<TRUE, sh[id]>> ELSE <<FALSE, JNull>>

\* C27: the shadows follow the notifications one by one. A step that handles an accepted
\* notification for the shadow X leaves X with the reported state of the notification when
\* it is an update that is processed without error, leaves X without an entry when it is a
\* delete, and leaves X as it was when the notification fails; the entry of every other
\* shadow stays as it was, and no step other than the handling of a notification changes
\* an entry. So the lookup of X gives the reported state of the last update processed
\* without error when no delete for X came after it, and nothing otherwise.
C27_LastWins ==
    [][IF call'.handler = "state" /\ call.handler # "state"
       THEN LET m == call'.msg
                X == IF m.named THEN m.name ELSE deviceID
            IN  /\ \A id \in (DOMAIN shadows \cup DOMAIN shadows') \ {X} :
                       Entry(shadows', id) = Entry(shadows, id)
                /\ call'.err # NoErr => shadows' = shadows
                /\ (m.hasTopic /\ m.op = "update" /\ call'.err = NoErr) =>
                       Entry(shadows', X) = <<TRUE, ReportedOf(m.payload)>>
                /\ (m.hasTopic /\ m.op = "delete") =>
                       /\ call'.err = NoErr
                       /\ Entry(shadows', X) = <<FALSE, JNull>>
                /\ ~m.hasTopic => call'.err # NoErr
       ELSE shadows' = shadows]_vars

\* an accepted update has replaced the state an earlier update had left for a named
\* shadow, while another shadow keeps its entry
C27_Witness ==
    /\ StateCall
    /\ call.msg.hasTopic
    /\ call.msg.op = "update"
    /\ call.msg.named
    /\ call.err = NoErr
    /\ NotifiedShadow \in DOMAIN call.before
    /\ call.before[NotifiedShadow] # shadows[NotifiedShadow]
    /\ shadows[NotifiedShadow] = ReportedOf(call.msg.payload)
    /\ deviceID \in DOMAIN shadows

-----------------------------------------------------------------------------
(* Properties of payload filters that match nothing. *)

\* what the handler returns for the message of the call when no payload filter is configured
WithoutPayloadFilters ==
    {deviceHandler_HandleMessage(tenantID, deviceID, <<>>, topicFilter, call.msg, order) :
        order \in Orders(featuresOf(<<>>, Env))}

\* C28: for a twin shadow envelope, when payload filters are configured and none of them
\* matches the path of a leaf of the reconstructed value, the handler returns what it
\* returns for the envelope when no payload filter is configured, also when the value
\* has an empty object or an empty array in it.
C28_UnmatchedFiltersNeutral ==
    (/\ EnvelopeCall
     /\ TwinShadowEnvelope(Env)
     /\ Len(payloadFilters) > 0
     /\ ~SomeLeafFiltered) =>
        \E r \in WithoutPayloadFilters :
            /\ call.messages = r.messages
            /\ call.err = r.err

-----------------------------------------------------------------------------
(* Properties of the compiled filters. *)

CompileCall == call.handler = "compile"

\* C29: when CompileFilters returns an error the settings hold no compiled matcher (no
\* topic matcher, no payload matcher), whatever the mix of valid and invalid filters;
\* when it returns no error PayloadFiltersRegexp holds one matcher per configured payload
\* filter, in the order of the configuration, also after a second call.
C29_CompiledState ==
    CompileCall =>
        /\ call.err # NoErr =>
               /\ settings.TopicFilterRegexp = NilRegexp
               /\ settings.PayloadFiltersRegexp = <<>>
        /\ call.err = NoErr =>
               /\ Len(settings.PayloadFiltersRegexp) = Len(settings.PayloadFilters)
               /\ \A i \in 1..Len(settings.PayloadFilters) :
                      settings.PayloadFiltersRegexp[i]
                          = regexp_Compile(settings.PayloadFilters[i]).exp

-----------------------------------------------------------------------------
(* Properties of the shutdown. *)

\* startRouter returned a router
RouterReturned == life.run # "none"
\* the lifecycle goroutine has sent on `done`
DoneSignalled == life.sent > 0
\* the connection to AWS was established: the path that ends with the context cancelled
NormalPath == life.connected = "ok"
\* the connection to AWS failed and the lifecycle goroutine closed the router itself
EarlyClosePath == life.connected = "failed"
\* a signal has arrived and stopRouter waits for `done`
WaitsForDone == pc = "waitDone"
MainLoopReturned == pc = "returned"

\* a goroutine of startRouter can take its next step
GoroutineStep ==
    \/ RouterRun
    \/ RouterRunReturns
    \/ LifecycleConnect
    \/ LifecycleCloudDisconnect
    \/ LifecycleAwsDisconnect
    \/ LifecycleCloseCache
    \/ LifecycleDone

\* C30: once startRouter has returned a router, a signal makes MainLoop return: while
\* stopRouter waits, `done` holds a value or a goroutine of startRouter can still step
\* towards the send; the lifecycle goroutine sends on `done` at most once, on the path of
\* the failed connection to AWS too, and only after the request cache was closed and, on
\* the normal path, both clients were disconnected; MainLoop does not return before the
\* send, and stopRouter waits only when startRouter returned a router
C30_ShutdownTerminates ==
    /\ life.sent <= 1
    /\ DoneSignalled => life.cacheClosed
    /\ DoneSignalled /\ NormalPath => life.cloudDisconnected /\ life.awsDisconnected
    /\ MainLoopReturned /\ RouterReturned => DoneSignalled
    /\ WaitsForDone => RouterReturned
    /\ WaitsForDone => life.done > 0 \/ ENABLED GoroutineStep
    /\ EarlyClosePath /\ ~DoneSignalled => ENABLED GoroutineStep

\* C30 as a property of the behaviours in which every goroutine that can step does step:
\* a signal with a router leads to the return of MainLoop
C30_SignalLeadsToReturn == WaitsForDone ~> MainLoopReturned

\* the part of C30 that holds: the order of the steps before the send on `done`
C30_DoneOrder ==
    /\ life.sent <= 1
    /\ DoneSignalled => life.cacheClosed
    /\ DoneSignalled /\ NormalPath => life.cloudDisconnected /\ life.awsDisconnected
    /\ MainLoopReturned /\ RouterReturned => DoneSignalled
    /\ WaitsForDone => RouterReturned
    /\ EarlyClosePath /\ ~DoneSignalled => ENABLED GoroutineStep

\* the state C30 fails in: router.Run returned an error, the lifecycle goroutine still
\* waits for Running(), and stopRouter waits for `done` after the signal
C30_Stuck ==
    /\ WaitsForDone /\ life.run = "returned" /\ ~life.running
    /\ life.lifecycle = "waitRunning" /\ life.done = 0

\* MainLoop has returned after the normal close: the signal came with AWS connected
C30_Witness ==
    /\ MainLoopReturned /\ RouterReturned /\ NormalPath
    /\ life.sent = 1 /\ life.done = 0
    /\ life.cacheClosed /\ life.cloudDisconnected /\ life.awsDisconnected

====
